---- MODULE Spec2Model ----
(***************************************************************************)
(* Orchestration engine of the drug-repurposing backend: MasterAgent       *)
(* (agents/master_agent.py), the four worker agents and their provider     *)
(* clients.  Scores are kept in hundredths (4.1 is 410), confidences in    *)
(* thousandths (0.8 is 800), times in whole seconds.                       *)
(***************************************************************************)
EXTENDS Integers, Sequences, FiniteSets, TLC

\* ------------------------------------------------------------------ bounds
MaxCallSeconds == 160

\* Longest study list and longest patent list a provider returns
MaxStudies == 30

MaxPatents == 21

\* The rows of table queries the model follows
MaxQueries == 2

\* The execute calls queued on one worker instance
MaxCalls == 3

\* --------------------------------------------------------------- constants
AGENT_TIMEOUT_SECONDS == 300

NoError == "<None>"

Min(a, b) == IF a <= b THEN a ELSE b

Rep(n, x) == [i \in 1..n |-> x]

RECURSIVE SumSeq(_)
SumSeq(s) == IF s = <<>> THEN 0 ELSE Head(s) + SumSeq(Tail(s))

RECURSIVE SeqToSet(_)
SeqToSet(s) == IF s = <<>> THEN {} ELSE {Head(s)} \cup SeqToSet(Tail(s))

\* dict.get(key, default)
Get(d, k, default) == IF k \in DOMAIN d THEN d[k] ELSE default

\* ------------------------------------------------------- worker registry
Registry == <<"clinical", "patent", "market", "web">>

RegistrySet == {"clinical", "patent", "market", "web"}

\* BaseAgent.name of each worker instance held by MasterAgent
AgentClassName(w) ==
    CASE w = "clinical" -> "ClinicalIntelligenceAgent"
      [] w = "patent"   -> "PatentLandscapeAgent"
      [] w = "market"   -> "MarketIntelligenceAgent"
      [] w = "web"      -> "WebIntelligenceAgent"

\* ------------------------------------------------------------ the queries
\* A query is the sequence of its whitespace-separated words (str.split());
\* the empty string and a string of whitespace only are both <<>>.
\* WordInfo gives what the fallback reads of a word: whether word[0] is
\* upper case, len(word), and the disease keywords the lower-cased word
\* contains as a substring.
WordInfo(word) ==
    CASE word = "Metformin"   -> [upper |-> TRUE,  len |-> 9, kws |-> {}]
      [] word = "for"         -> [upper |-> FALSE, len |-> 3, kws |-> {}]
      [] word = "diabetes"    -> [upper |-> FALSE, len |-> 8, kws |-> {"diabetes"}]
      [] word = "Repurpose"   -> [upper |-> TRUE,  len |-> 9, kws |-> {}]
      [] word = "aspirin"     -> [upper |-> FALSE, len |-> 7, kws |-> {}]
      [] word = "Can"         -> [upper |-> TRUE,  len |-> 3, kws |-> {}]
      [] word = "it"          -> [upper |-> FALSE, len |-> 2, kws |-> {}]
      [] word = "Alzheimer's" -> [upper |-> TRUE,  len |-> 11, kws |-> {"alzheimer"}]
      [] word = "cancer?"     -> [upper |-> FALSE, len |-> 7, kws |-> {"cancer"}]

Queries ==
    { <<"Metformin", "for", "diabetes">>,
      <<"Repurpose", "aspirin">>,
      <<"Can", "it">>,
      <<"aspirin", "for", "it">>,
      <<"Alzheimer's", "cancer?">>,
      <<>> }

disease_keywords == <<"disease", "cancer", "diabetes", "alzheimer", "parkinson">>

\* str.capitalize() of a keyword
Capitalize(kw) ==
    CASE kw = "disease"   -> "Disease"
      [] kw = "cancer"    -> "Cancer"
      [] kw = "diabetes"  -> "Diabetes"
      [] kw = "alzheimer" -> "Alzheimer"
      [] kw = "parkinson" -> "Parkinson"

\* keyword in query_lower
KeywordInQuery(kw, query) == \E i \in 1..Len(query) : kw \in WordInfo(query[i]).kws

\* Lines 185-188: first keyword, in list order, found in the query
RECURSIVE FirstKeyword(_, _)
FirstKeyword(kws, query) ==
    IF kws = <<>> THEN ""
    ELSE IF KeywordInQuery(Head(kws), query) THEN Capitalize(Head(kws))
    ELSE FirstKeyword(Tail(kws), query)

\* Lines 191-195: first word with an upper-case first letter and len > 3
RECURSIVE FirstCapitalized(_)
FirstCapitalized(words) ==
    IF words = <<>> THEN ""
    ELSE IF WordInfo(Head(words)).upper /\ WordInfo(Head(words)).len > 3
         THEN Head(words)
    ELSE FirstCapitalized(Tail(words))

\* _fallback_decomposition without the `or "Unknown condition"` of line 198
_fallback_decomposition_NoSentinel(query) ==
    LET byKeyword == FirstKeyword(disease_keywords, query)
        condition == IF byKeyword # "" THEN byKeyword ELSE FirstCapitalized(query)
    IN [ condition       |-> condition,
         drug_name       |-> "",
         analysis_type   |-> "repurposing",
         required_agents |-> {"clinical", "patent", "market", "web"},
         parameters      |-> [region |-> "Global"] ]

_fallback_decomposition(query) ==
    LET byKeyword == FirstKeyword(disease_keywords, query)
        condition == IF byKeyword # "" THEN byKeyword ELSE FirstCapitalized(query)
    IN [ condition       |-> IF condition # "" THEN condition ELSE "Unknown condition",
         drug_name       |-> "",
         analysis_type   |-> "repurposing",
         required_agents |-> {"clinical", "patent", "market", "web"},
         parameters      |-> [region |-> "Global"] ]

\* Structured outputs the language model can return for a query
\* (QueryDecomposition, any field values the schema admits).
LLMDecompositions ==
    { [ condition |-> c, drug_name |-> d, analysis_type |-> "repurposing",
        required_agents |-> ra, parameters |-> [region |-> "Global"] ] :
        c \in {"Type 2 Diabetes", ""}, d \in {"Metformin", ""},
        ra \in { {"clinical", "patent", "market", "web"},
                 {"clinical", "patent", "market"},
                 {},
                 {"literature"} } }

\* ------------------------------------------------------------------ tasks
\* description is the sequence of the text pieces of the f-string; the empty
\* description is <<>>.
TaskDescription(w, decomposition) ==
    CASE w = "clinical" -> <<"Analyze clinical trials for", decomposition.condition>>
      [] w = "patent"   -> <<"Analyze patent landscape for",
                             IF decomposition.drug_name # "" THEN decomposition.drug_name
                             ELSE decomposition.condition>>
      [] w = "market"   -> <<"Analyze market opportunity for", decomposition.condition>>
      [] w = "web"      -> <<"Gather web intelligence for", decomposition.drug_name,
                             "and", decomposition.condition>>

\* base_params with the drug name falling back on the condition, as the
\* patent task's description does
BaseParams_DrugOrCondition(decomposition) ==
    [ k \in {"condition", "drug_name"} \cup DOMAIN decomposition.parameters |->
        IF k \in DOMAIN decomposition.parameters THEN decomposition.parameters[k]
        ELSE IF k = "condition" THEN decomposition.condition
        ELSE IF decomposition.drug_name # "" THEN decomposition.drug_name
        ELSE decomposition.condition ]

\* base_params, lines 216-220
BaseParams(decomposition) ==
    [ k \in {"condition", "drug_name"} \cup DOMAIN decomposition.parameters |->
        IF k \in DOMAIN decomposition.parameters THEN decomposition.parameters[k]
        ELSE IF k = "condition" THEN decomposition.condition
        ELSE decomposition.drug_name ]

_create_agent_tasks(decomposition, now) ==
    [ w \in RegistrySet \cap decomposition.required_agents |->
        [ task_id     |-> <<w, now>>,
          description |-> TaskDescription(w, decomposition),
          parameters  |-> BaseParams(decomposition) ] ]

\* agent_names, lines 267-279: the keys of tasks in insertion order
RECURSIVE KeysInOrder(_, _)
KeysInOrder(order, keys) ==
    IF order = <<>> THEN <<>>
    ELSE IF Head(order) \in keys THEN <<Head(order)>> \o KeysInOrder(Tail(order), keys)
    ELSE KeysInOrder(Tail(order), keys)

\* ------------------------------------------------------ Task / AgentResult
NoData == [kind |-> "empty"]

\* AgentResult(...) with the defaults of base_agent.py lines 22-32
AgentResult(agent_name, task_id, status, data, error, execution_time, confidence_score, sources) ==
    [ agent_name       |-> agent_name,
      task_id          |-> task_id,
      status           |-> status,
      data             |-> data,
      error            |-> error,
      execution_time   |-> execution_time,
      confidence_score |-> confidence_score,
      sources          |-> sources ]

\* BaseAgent.validate_task
validate_task(task) == task.description # <<>>

\* ShortCircuitError with the web check requiring only one of its parameters
ShortCircuitError_WebEither(w, task) ==
    LET condition == Get(task.parameters, "condition", "")
        drug_name == Get(task.parameters, "drug_name", "")
    IN IF ~validate_task(task) THEN "Invalid task parameters"
       ELSE CASE w = "clinical" ->
                   IF condition = "" THEN "Condition parameter is required" ELSE ""
              [] w = "patent" ->
                   IF drug_name = "" THEN "Drug name parameter is required" ELSE ""
              [] w = "market" ->
                   IF condition = "" THEN "Condition parameter is required" ELSE ""
              [] w = "web" ->
                   IF condition = "" /\ drug_name = ""
                   THEN "Both condition and drug_name parameters are required"
                   ELSE ""

\* The early returns of the four execute methods: the error of the failed
\* Result returned before any provider is contacted, "" when there is none.
ShortCircuitError(w, task) ==
    LET condition == Get(task.parameters, "condition", "")
        drug_name == Get(task.parameters, "drug_name", "")
    IN IF ~validate_task(task) THEN "Invalid task parameters"
       ELSE CASE w = "clinical" ->
                   IF condition = "" THEN "Condition parameter is required" ELSE ""
              [] w = "patent" ->
                   IF drug_name = "" THEN "Drug name parameter is required" ELSE ""
              [] w = "market" ->
                   IF condition = "" THEN "Condition parameter is required" ELSE ""
              [] w = "web" ->
                   IF condition = "" \/ drug_name = ""
                   THEN "Both condition and drug_name parameters are required"
                   ELSE ""

\* ---------------------------------------------------------- the providers
\* What a provider call can meet: "ok" (a payload), "network" (a
\* requests.RequestException) or "malformed" (any other exception raised
\* while the payload is read).
Study(status, phases, drug) == [status |-> status, phase |-> phases, drug |-> drug]

StudiesScenario ==
    Rep(3, Study("COMPLETED", {"PHASE3"}, TRUE)) \o
    Rep(1, Study("COMPLETED", {"PHASE4"}, FALSE)) \o
    Rep(4, Study("COMPLETED", {"PHASE2"}, FALSE)) \o
    Rep(4, Study("RECRUITING", {"PHASE1"}, TRUE))

StudiesStrong == Rep(10, Study("COMPLETED", {"PHASE3", "PHASE4"}, TRUE))

ClinicalPayloads == { <<>>, StudiesScenario, StudiesStrong }

\* USPTOPatentAPI.search_patents returns the same two patents on every call
MockPatents ==
    << [patent_number |-> "US10123456", status |-> "Active", claims_count |-> 25,
        citations |-> 12],
       [patent_number |-> "US10234567", status |-> "Active", claims_count |-> 18,
        citations |-> 8] >>

\* market_size_usd in $1e9, projected_cagr and top_3_market_share in hundredths
MarketPayloads ==
    { [market_size_usd |-> 25, projected_cagr |-> 1100, top_3_market_share |-> 4500],
      [market_size_usd |-> 5,  projected_cagr |-> 350,  top_3_market_share |-> 7500] }

\* articles found, publication_trend and publications since 2020
WebPayloads ==
    { [articles |-> 0,  publication_trend |-> "",           recent |-> 0],
      [articles |-> 30, publication_trend |-> "Increasing", recent |-> 25] }

\* ------------------------------------------- provider answers of any size
\* Study lists of e completed Phase 3/4 studies, a completed Phase 3 studies
\* and b recruiting Phase 1 studies, up to MaxStudies studies
StudyLists ==
    { Rep(e, Study("COMPLETED", {"PHASE3", "PHASE4"}, TRUE)) \o
      Rep(a, Study("COMPLETED", {"PHASE3"}, TRUE)) \o
      Rep(b, Study("RECRUITING", {"PHASE1"}, FALSE)) :
        e \in {0, 4, 5, 6, 10, 15}, a \in {0, 5, 6},
        b \in {n \in {0, 1, 2, 3, 9, 11, 15, 29, MaxStudies} : n <= MaxStudies} }

\* Studies that differ and yet tie on relevance (5: completed and Phase 3, or
\* completed and the drug among the interventions), and lists of them in
\* every order
StudyKinds ==
    { Study("COMPLETED", {"PHASE3"}, FALSE), Study("COMPLETED", {"PHASE1"}, TRUE),
      Study("RECRUITING", {"PHASE3"}, TRUE), Study("RECRUITING", {"PHASE1"}, FALSE),
      Study("COMPLETED", {"PHASE4"}, TRUE) }

MixedStudies ==
    UNION { [1..n -> StudyKinds] : n \in 1..3 } \cup
    { front \o <<Study("RECRUITING", {"PHASE1"}, FALSE),
                 Study("COMPLETED", {"PHASE1"}, TRUE),
                 Study("COMPLETED", {"PHASE3"}, FALSE),
                 Study("COMPLETED", {"PHASE4"}, TRUE)>> \o back :
        front \in [1..2 -> StudyKinds], back \in [1..1 -> StudyKinds] }

AnyStudies ==
    ClinicalPayloads \cup {l \in StudyLists \cup MixedStudies : Len(l) <= MaxStudies}

\* Patents that differ and yet tie on importance (6.25)
PatentKinds ==
    { [patent_number |-> "US1", status |-> "Active", claims_count |-> 25, citations |-> 12],
      [patent_number |-> "US3", status |-> "Active", claims_count |-> 25, citations |-> 10],
      [patent_number |-> "US4", status |-> "Active", claims_count |-> 40, citations |-> 20],
      [patent_number |-> "US2", status |-> "Expired", claims_count |-> 40, citations |-> 3] }

MixedPatents ==
    UNION { [1..n -> PatentKinds] : n \in 1..3 } \cup
    { front \o <<[patent_number |-> "US2", status |-> "Expired", claims_count |-> 40,
                  citations |-> 3],
                 [patent_number |-> "US3", status |-> "Active", claims_count |-> 25,
                  citations |-> 10],
                 [patent_number |-> "US1", status |-> "Active", claims_count |-> 25,
                  citations |-> 12],
                 [patent_number |-> "US4", status |-> "Active", claims_count |-> 40,
                  citations |-> 20]>> \o back :
        front \in [1..2 -> PatentKinds], back \in [1..1 -> PatentKinds] }

\* Patent lists of k active and j expired patents
AnyPatents ==
    {MockPatents} \cup {l \in MixedPatents : Len(l) <= MaxPatents} \cup
    { Rep(k, [patent_number |-> "US1", status |-> "Active", claims_count |-> 25,
              citations |-> 12]) \o
      Rep(j, [patent_number |-> "US2", status |-> "Expired", claims_count |-> 40,
              citations |-> 3]) :
        k \in {0, 1, 5, 6, 7, 12, 13, 19, 20, MaxPatents}, j \in {0, 2} }

AnyMarkets ==
    { [market_size_usd |-> size, projected_cagr |-> cagr, top_3_market_share |-> share] :
        size \in {0, 5, 6, 10, 11, 20, 21, 25, 50},
        cagr \in {0, 350, 400, 401, 700, 701, 1000, 1001, 1100, 1250},
        share \in {0, 1300, 4500, 4999, 5000, 6999, 7000, 7500, 10000} }

AnyLiterature ==
    { [articles |-> n, publication_trend |-> t, recent |-> r] :
        n \in {0, 1, 10, 11, 20, 21, 50, 51},
        t \in {"", "Increasing", "Stable", "Decreasing"},
        r \in {0, 1, 10, 29, 30, 31, 100} }

AnyPayloads(w) ==
    CASE w = "clinical" -> AnyStudies
      [] w = "patent"   -> AnyPatents
      [] w = "market"   -> AnyMarkets
      [] w = "web"      -> AnyLiterature

\* The answers that put the three scored dimensions next to the thresholds
\* of the risk roll-up (evidence 2.9, 3.0, 5.9, 6.0; IP risk 3.0, 3.5, 6.0,
\* 6.5; attractiveness 2, 3, 5, 6)
RiskPayloads(w) ==
    CASE w = "clinical" ->
             { Rep(29, Study("RECRUITING", {"PHASE1"}, FALSE)),
               Rep(5, Study("COMPLETED", {"PHASE3"}, TRUE)),
               Rep(5, Study("COMPLETED", {"PHASE3", "PHASE4"}, TRUE)) \o
                   Rep(9, Study("RECRUITING", {"PHASE1"}, FALSE)),
               Rep(6, Study("COMPLETED", {"PHASE3", "PHASE4"}, TRUE)) \o
                   Rep(2, Study("RECRUITING", {"PHASE1"}, FALSE)) }
      [] w = "patent" ->
             { Rep(k, [patent_number |-> "US1", status |-> "Active",
                       claims_count |-> 25, citations |-> 12]) : k \in {6, 7, 12, 13} }
      [] w = "market" ->
             { [market_size_usd |-> 5,  projected_cagr |-> 350, top_3_market_share |-> 7500],
               [market_size_usd |-> 6,  projected_cagr |-> 350, top_3_market_share |-> 7500],
               [market_size_usd |-> 6,  projected_cagr |-> 401, top_3_market_share |-> 6999],
               [market_size_usd |-> 11, projected_cagr |-> 401, top_3_market_share |-> 5000] }
      [] w = "web" ->
             { [articles |-> 30, publication_trend |-> "Increasing", recent |-> 25] }

NetworkErrorText == "HTTPSConnectionPool: Read timed out"

MalformedErrorText == "'list' object has no attribute 'get'"

AnalysisErrorText == "unsupported operand type(s)"

RaisedErrorText == "worker crashed"

\* ClinicalTrialsAPI.search_studies: a RequestException is caught and turned
\* into an empty study list with an "error" key; any other exception leaves
\* the function.
search_studies(kind, payload) ==
    CASE kind = "ok"        -> [raised |-> FALSE, studies |-> payload, error |-> NoError]
      [] kind = "network"   -> [raised |-> FALSE, studies |-> <<>>, error |-> NetworkErrorText]
      [] kind = "malformed" -> [raised |-> TRUE,  studies |-> <<>>, error |-> MalformedErrorText]

\* PubMedAPI.search_literature / analyze_literature_trends: every exception
\* is caught and turned into an empty article list with an "error" key.
search_literature(kind, payload) ==
    IF kind = "ok"
    THEN [raised |-> FALSE, articles |-> payload.articles,
          publication_trend |-> payload.publication_trend,
          recent |-> payload.recent, error |-> NoError]
    ELSE [raised |-> FALSE, articles |-> 0, publication_trend |-> "", recent |-> 0,
          error |-> IF kind = "network" THEN NetworkErrorText ELSE MalformedErrorText]

\* USPTOPatentAPI.analyze_patent_landscape over the patents search_patents
\* returns
analyze_patent_landscape(patents) ==
    LET active == Len(SelectSeq(patents, LAMBDA p : p.status = "Active"))
    IN [ total_patents   |-> Len(patents),
         active_patents  |-> active,
         expired_patents |-> Len(SelectSeq(patents, LAMBDA p : p.status = "Expired")),
         risk_level      |-> IF active > 5 THEN "Medium" ELSE "Low" ]

\* ------------------------------------------------------------ the scores
\* _calculate_evidence_score with completed / 10 in place of completed / 5
_calculate_evidence_score_HalfCompleted(studies) ==
    IF studies = <<>> THEN 0
    ELSE LET completed == Len(SelectSeq(studies, LAMBDA s : s.status = "COMPLETED"))
             phase_3 == Len(SelectSeq(studies, LAMBDA s : "PHASE3" \in s.phase))
             phase_4 == Len(SelectSeq(studies, LAMBDA s : "PHASE4" \in s.phase))
             score == Min(Len(studies) * 10, 300) + Min(completed * 10, 300)
                      + Min(phase_3 * 30 + phase_4 * 40, 400)
         IN Min(score, 1000)

\* ClinicalIntelligenceAgent._calculate_evidence_score, in hundredths
_calculate_evidence_score(studies) ==
    IF studies = <<>> THEN 0
    ELSE LET completed == Len(SelectSeq(studies, LAMBDA s : s.status = "COMPLETED"))
             phase_3 == Len(SelectSeq(studies, LAMBDA s : "PHASE3" \in s.phase))
             phase_4 == Len(SelectSeq(studies, LAMBDA s : "PHASE4" \in s.phase))
             score == Min(Len(studies) * 10, 300) + Min(completed * 20, 300)
                      + Min(phase_3 * 30 + phase_4 * 40, 400)
         IN Min(score, 1000)

\* _calculate_risk_score without the cap at 10
_calculate_risk_score_Uncapped(landscape) == landscape.active_patents * 50

\* PatentLandscapeAgent._calculate_risk_score, in hundredths
_calculate_risk_score(landscape) == Min(landscape.active_patents * 50, 1000)

\* _calculate_market_attractiveness with >= in the size tiers
_calculate_market_attractiveness_SizeInclusive(market) ==
    LET size == IF market.market_size_usd >= 20 THEN 400
                ELSE IF market.market_size_usd >= 10 THEN 300
                ELSE IF market.market_size_usd >= 5 THEN 200 ELSE 100
        growth == IF market.projected_cagr > 1000 THEN 300
                  ELSE IF market.projected_cagr > 700 THEN 200
                  ELSE IF market.projected_cagr > 400 THEN 100 ELSE 0
        competition == IF market.top_3_market_share < 5000 THEN 300
                       ELSE IF market.top_3_market_share < 7000 THEN 200 ELSE 100
    IN Min(size + growth + competition, 1000)

\* MarketIntelligenceAgent._calculate_market_attractiveness, in hundredths
_calculate_market_attractiveness(market) ==
    LET size == IF market.market_size_usd > 20 THEN 400
                ELSE IF market.market_size_usd > 10 THEN 300
                ELSE IF market.market_size_usd > 5 THEN 200 ELSE 100
        growth == IF market.projected_cagr > 1000 THEN 300
                  ELSE IF market.projected_cagr > 700 THEN 200
                  ELSE IF market.projected_cagr > 400 THEN 100 ELSE 0
        competition == IF market.top_3_market_share < 5000 THEN 300
                       ELSE IF market.top_3_market_share < 7000 THEN 200 ELSE 100
    IN Min(size + growth + competition, 1000)

\* WebIntelligenceAgent._calculate_research_momentum, in hundredths
_calculate_research_momentum(trend, total_pubs) ==
    LET volume == IF total_pubs > 50 THEN 400
                  ELSE IF total_pubs > 20 THEN 300
                  ELSE IF total_pubs > 10 THEN 200
                  ELSE IF total_pubs > 0 THEN 100 ELSE 0
        direction == IF trend.publication_trend = "Increasing" THEN 300
                     ELSE IF trend.publication_trend = "Stable" THEN 150 ELSE 0
        activity == Min(trend.recent * 10, 300)
    IN Min(volume + direction + activity, 1000)

\* InsertDesc of a sort that puts a later item before an equal earlier one
RECURSIVE InsertDesc_LaterFirst(_, _)
InsertDesc_LaterFirst(x, sorted) ==
    IF sorted = <<>> THEN <<x>>
    ELSE IF Head(sorted).score > x.score
    THEN <<Head(sorted)>> \o InsertDesc_LaterFirst(x, Tail(sorted))
    ELSE <<x>> \o sorted

\* list.sort(key=score, reverse=True): stable, non-increasing score
RECURSIVE InsertDesc(_, _)
InsertDesc(x, sorted) ==
    IF sorted = <<>> THEN <<x>>
    ELSE IF Head(sorted).score >= x.score THEN <<Head(sorted)>> \o InsertDesc(x, Tail(sorted))
    ELSE <<x>> \o sorted

RECURSIVE SortDescFrom(_, _)
SortDescFrom(items, acc) ==
    IF items = <<>> THEN acc
    ELSE SortDescFrom(Tail(items), InsertDesc(Head(items), acc))

FirstN(s, n) == SubSeq(s, 1, Min(n, Len(s)))

\* ClinicalIntelligenceAgent._count_by_status
_count_by_status(studies) ==
    [ st \in {studies[i].status : i \in 1..Len(studies)} |->
        Len(SelectSeq(studies, LAMBDA s : s.status = st)) ]

\* ClinicalIntelligenceAgent._analyze_phases
_analyze_phases(studies) ==
    [ ph \in {"EARLY_PHASE1", "PHASE1", "PHASE2", "PHASE3", "PHASE4"} |->
        Len(SelectSeq(studies, LAMBDA s : ph \in s.phase)) ]

\* ClinicalIntelligenceAgent._identify_key_trials
_identify_key_trials(studies, drug_name) ==
    LET relevance(st) == (IF st.status = "COMPLETED" THEN 3 ELSE 0)
                         + (IF "PHASE3" \in st.phase \/ "PHASE4" \in st.phase THEN 2 ELSE 0)
                         + (IF drug_name # "" /\ st.drug THEN 2 ELSE 0)
        scored == [i \in 1..Len(studies) |->
                      [item |-> studies[i], score |-> relevance(studies[i])]]
        sorted == SortDescFrom(scored, <<>>)
    IN [i \in 1..Len(sorted) |-> sorted[i].item]

\* PatentLandscapeAgent._identify_key_patents, importance in hundredths
_identify_key_patents(patents) ==
    LET importance(p) == (IF p.status = "Active" THEN 300 ELSE 0)
                         + Min(p.citations * 20, 200) + Min(p.claims_count * 5, 200)
        scored == [i \in 1..Len(patents) |->
                      [item |-> patents[i], score |-> importance(patents[i])]]
        sorted == SortDescFrom(scored, <<>>)
    IN [i \in 1..Len(sorted) |-> sorted[i].item]

\* ClinicalRecommendation with > in place of >=
ClinicalRecommendation_Exclusive(total_trials, evidence_score) ==
    IF total_trials = 0 THEN "No clinical trials found. Further research needed."
    ELSE IF evidence_score > 700 THEN "Strong clinical evidence."
    ELSE IF evidence_score > 400 THEN "Moderate clinical evidence."
    ELSE "Limited clinical evidence."

\* The _generate_recommendation methods, by the band they pick
ClinicalRecommendation(total_trials, evidence_score) ==
    IF total_trials = 0 THEN "No clinical trials found. Further research needed."
    ELSE IF evidence_score >= 700 THEN "Strong clinical evidence."
    ELSE IF evidence_score >= 400 THEN "Moderate clinical evidence."
    ELSE "Limited clinical evidence."

PatentRecommendation(risk_score) ==
    IF risk_score <= 300 THEN "Low IP risk."
    ELSE IF risk_score <= 600 THEN "Moderate IP risk."
    ELSE "High IP risk."

MarketRecommendation(attractiveness_score) ==
    IF attractiveness_score >= 700 THEN "Highly attractive market."
    ELSE IF attractiveness_score >= 400 THEN "Moderately attractive market."
    ELSE "Limited market attractiveness."

WebRecommendation(momentum_score) ==
    IF momentum_score >= 700 THEN "Strong research momentum."
    ELSE IF momentum_score >= 400 THEN "Moderate research activity."
    ELSE "Limited research activity."

\* MarketIntelligenceAgent._assess_commercial_viability, viability_level
ViabilityLevel(attractiveness_score) ==
    IF attractiveness_score >= 700 THEN "High"
    ELSE IF attractiveness_score >= 400 THEN "Moderate" ELSE "Low"

\* ------------------------------------------------------- execute, per worker
\* What can happen to one execute call once validation has passed:
\*   ok        the provider answers with a payload
\*   network   the provider call meets a requests.RequestException
\*   malformed the provider call meets any other exception
\*   analysis  an exception is raised by the analysis after the provider call
\*   raise     an exception leaves the coroutine (gather returns it in place
\*             of a Result, return_exceptions=True)
Payloads(w) ==
    CASE w = "clinical" -> ClinicalPayloads
      [] w = "patent"   -> {MockPatents}
      [] w = "market"   -> MarketPayloads
      [] w = "web"      -> WebPayloads

FaultKinds(w) ==
    CASE w = "clinical" -> {"network", "malformed", "analysis", "raise"}
      [] w = "patent"   -> {"analysis", "raise"}
      [] w = "market"   -> {"analysis", "raise"}
      [] w = "web"      -> {"network", "malformed", "analysis", "raise"}

Outcomes(w) ==
    { [kind |-> "ok", payload |-> p] : p \in Payloads(w) } \cup
    { [kind |-> k, payload |-> CHOOSE p \in Payloads(w) : TRUE] : k \in FaultKinds(w) }

\* Seconds the blocking provider calls of one execute take; the patent and
\* market providers are in-memory mocks.
CallSeconds(w) == IF w \in {"clinical", "web"} THEN {1, MaxCallSeconds} ELSE {0}

IsException(r) == "exc" \in DOMAIN r

\* FailedResult without the elapsed time
FailedResult_NoElapsed(w, task, error, start_time, now) ==
    AgentResult(AgentClassName(w), task.task_id, "failed", NoData, error, 0, 0, <<>>)

\* except Exception as e: ... (the last return of each execute)
FailedResult(w, task, error, start_time, now) ==
    AgentResult(AgentClassName(w), task.task_id, "failed", NoData, error,
                now - start_time, 0, <<>>)

\* The validation returns with the status 'partial'
InvalidResult_Partial(w, task) ==
    AgentResult(AgentClassName(w), task.task_id, "partial", NoData,
                ShortCircuitError(w, task), 0, 0, <<>>)

\* The validation returns: execution_time keeps its default 0.0
InvalidResult(w, task) ==
    AgentResult(AgentClassName(w), task.task_id, "failed", NoData,
                ShortCircuitError(w, task), 0, 0, <<>>)

ClinicalExecute(task, oc, start_time, now) ==
    LET condition == Get(task.parameters, "condition", "")
        drug_name == Get(task.parameters, "drug_name", "")
        trials_data == search_studies(IF oc.kind = "analysis" THEN "ok" ELSE oc.kind,
                                      oc.payload)
        studies == trials_data.studies
        evidence_score == _calculate_evidence_score(studies)
    IN IF trials_data.raised
       THEN FailedResult("clinical", task, trials_data.error, start_time, now)
       ELSE IF oc.kind = "analysis"
       THEN FailedResult("clinical", task, AnalysisErrorText, start_time, now)
       ELSE AgentResult("ClinicalIntelligenceAgent", task.task_id, "success",
                [ kind           |-> "clinical",
                  condition      |-> condition,
                  drug_name      |-> drug_name,
                  total_trials   |-> Len(studies),
                  trials_by_status |-> _count_by_status(studies),
                  phase_analysis |-> _analyze_phases(studies),
                  evidence_score |-> evidence_score,
                  key_trials     |-> FirstN(_identify_key_trials(studies, drug_name), 5),
                  recommendation |-> ClinicalRecommendation(Len(studies), evidence_score) ],
                NoError, now - start_time, evidence_score, <<"ClinicalTrials.gov">>)

PatentExecute(task, oc, start_time, now) ==
    LET landscape == analyze_patent_landscape(oc.payload)
        risk_score == _calculate_risk_score(landscape)
    IN IF oc.kind = "analysis"
       THEN FailedResult("patent", task, AnalysisErrorText, start_time, now)
       ELSE AgentResult("PatentLandscapeAgent", task.task_id, "success",
                [ kind           |-> "patent",
                  drug_name      |-> Get(task.parameters, "drug_name", ""),
                  condition      |-> Get(task.parameters, "condition", ""),
                  total_patents  |-> Len(oc.payload),
                  active_patents |-> landscape.active_patents,
                  key_patents    |-> FirstN(_identify_key_patents(oc.payload), 5),
                  risk_score     |-> risk_score,
                  recommendation |-> PatentRecommendation(risk_score) ],
                NoError, now - start_time, 800, <<"USPTO Patent Database">>)

MarketExecute(task, oc, start_time, now) ==
    LET attractiveness_score == _calculate_market_attractiveness(oc.payload)
    IN IF oc.kind = "analysis"
       THEN FailedResult("market", task, AnalysisErrorText, start_time, now)
       ELSE AgentResult("MarketIntelligenceAgent", task.task_id, "success",
                [ kind                 |-> "market",
                  condition            |-> Get(task.parameters, "condition", ""),
                  region               |-> Get(task.parameters, "region", "Global"),
                  market_size          |-> oc.payload,
                  attractiveness_score |-> attractiveness_score,
                  viability_level      |-> ViabilityLevel(attractiveness_score),
                  recommendation       |-> MarketRecommendation(attractiveness_score) ],
                NoError, now - start_time, 750,
                <<"IQVIA", "Market Reports", "Industry Analysis">>)

WebExecute(task, oc, start_time, now) ==
    LET literature == search_literature(IF oc.kind = "analysis" THEN "ok" ELSE oc.kind,
                                        oc.payload)
        momentum_score == _calculate_research_momentum(literature, literature.articles)
    IN IF oc.kind = "analysis"
       THEN FailedResult("web", task, AnalysisErrorText, start_time, now)
       ELSE AgentResult("WebIntelligenceAgent", task.task_id, "success",
                [ kind                    |-> "web",
                  condition               |-> Get(task.parameters, "condition", ""),
                  drug_name               |-> Get(task.parameters, "drug_name", ""),
                  total_publications      |-> literature.articles,
                  research_momentum_score |-> momentum_score,
                  recommendation          |-> WebRecommendation(momentum_score) ],
                NoError, now - start_time, 850, <<"PubMed", "NCBI", "News Sources">>)

\* What gather receives from the coroutine of worker w: its Result, or the
\* exception that left it.
Execute(w, task, oc, start_time, now) ==
    IF oc.kind = "raise" THEN [exc |-> RaisedErrorText]
    ELSE CASE w = "clinical" -> ClinicalExecute(task, oc, start_time, now)
           [] w = "patent"   -> PatentExecute(task, oc, start_time, now)
           [] w = "market"   -> MarketExecute(task, oc, start_time, now)
           [] w = "web"      -> WebExecute(task, oc, start_time, now)

\* ProcessGathered without its isinstance branch: raised entries are dropped
ProcessGathered_DropsRaised(names, taskMap, gatheredMap) ==
    LET kept == SelectSeq(names, LAMBDA n : ~IsException(gatheredMap[n]))
    IN [i \in 1..Len(kept) |-> gatheredMap[kept[i]]]

\* Lines 289-304: an AgentResult for every entry gather returned
ProcessGathered(names, taskMap, gatheredMap) ==
    [ i \in 1..Len(names) |->
        IF IsException(gatheredMap[names[i]])
        THEN AgentResult(names[i], taskMap[names[i]].task_id, "failed", NoData,
                         gatheredMap[names[i]].exc, 0, 0, <<>>)
        ELSE gatheredMap[names[i]] ]

\* --------------------------------------------------------------- aggregator
Successful(results) == SelectSeq(results, LAMBDA r : r.status = "success")

\* The last successful Result of each agent name (dict assignment, line 342)
LastSuccessData(results, name) ==
    LET idx == {i \in 1..Len(results) :
                    results[i].status = "success" /\ results[i].agent_name = name}
    IN results[CHOOSE i \in idx : \A j \in idx : j <= i].data

\* _aggregate_results with the mean taken over all the results
_aggregate_results_MeanOverAll(results) ==
    LET successful == Successful(results)
    IN [ total_agents         |-> Len(results),
         successful_agents    |-> Len(successful),
         failed_agents        |-> Len(SelectSeq(results, LAMBDA r : r.status = "failed")),
         average_confidence   |->
             IF successful # <<>>
             THEN [num |-> SumSeq([i \in 1..Len(successful) |->
                                      successful[i].confidence_score]),
                   den |-> Len(results)]
             ELSE [num |-> 0, den |-> 1],
         total_execution_time |-> SumSeq([i \in 1..Len(results) |->
                                              results[i].execution_time]),
         all_sources          |-> UNION {SeqToSet(results[i].sources) :
                                             i \in 1..Len(results)},
         agent_data           |-> [name \in {successful[i].agent_name :
                                                 i \in 1..Len(successful)} |->
                                      LastSuccessData(results, name)] ]

\* average_confidence is the fraction num / den (0.0 is 0 / 1)
_aggregate_results(results) ==
    LET successful == Successful(results)
    IN [ total_agents         |-> Len(results),
         successful_agents    |-> Len(successful),
         failed_agents        |-> Len(SelectSeq(results, LAMBDA r : r.status = "failed")),
         average_confidence   |->
             IF successful # <<>>
             THEN [num |-> SumSeq([i \in 1..Len(successful) |->
                                      successful[i].confidence_score]),
                   den |-> Len(successful)]
             ELSE [num |-> 0, den |-> 1],
         total_execution_time |-> SumSeq([i \in 1..Len(results) |->
                                              results[i].execution_time]),
         all_sources          |-> UNION {SeqToSet(results[i].sources) :
                                             i \in 1..Len(results)},
         agent_data           |-> [name \in {successful[i].agent_name :
                                                 i \in 1..Len(successful)} |->
                                      LastSuccessData(results, name)] ]

\* -------------------------------------------------------------- synthesizer
NotAvailable == [status |-> "not_available"]

\* FormatSection by position: the section of a worker read from the place its
\* Result has in dispatch order
FormatSection_ByPosition(results, className) ==
    LET k == CASE className = "ClinicalIntelligenceAgent" -> 1
               [] className = "PatentLandscapeAgent" -> 2
               [] className = "MarketIntelligenceAgent" -> 3
               [] className = "WebIntelligenceAgent" -> 4
    IN IF k <= Len(results) /\ results[k].status = "success"
       THEN results[k].data ELSE NotAvailable

\* FormatSection without the status test
FormatSection_IgnoresStatus(results, className) ==
    LET idx == {i \in 1..Len(results) : results[i].agent_name = className}
    IN IF idx = {} THEN NotAvailable
       ELSE results[CHOOSE i \in idx : \A j \in idx : i <= j].data

\* _format_clinical_section and its three siblings: the first Result whose
\* agent_name is the worker's class name
FormatSection(results, className) ==
    LET idx == {i \in 1..Len(results) : results[i].agent_name = className}
    IN IF idx = {} THEN NotAvailable
       ELSE LET first == results[CHOOSE i \in idx : \A j \in idx : i <= j]
            IN IF first.status = "success" THEN first.data ELSE NotAvailable

_format_clinical_section(results) == FormatSection(results, "ClinicalIntelligenceAgent")

_format_patent_section(results) == FormatSection(results, "PatentLandscapeAgent")

_format_market_section(results) == FormatSection(results, "MarketIntelligenceAgent")

_format_web_section(results) == FormatSection(results, "WebIntelligenceAgent")

\* Lines 496-510, one Result at a time
RECURSIVE AssessDimensions(_, _)
AssessDimensions(results, risks) ==
    IF results = <<>> THEN risks
    ELSE LET r == Head(results)
             next ==
               IF r.status # "success" THEN risks
               ELSE IF r.agent_name = "ClinicalIntelligenceAgent"
               THEN [risks EXCEPT !.clinical_risk =
                        IF r.data.evidence_score >= 600 THEN "Low"
                        ELSE IF r.data.evidence_score >= 300 THEN "Moderate" ELSE "High"]
               ELSE IF r.agent_name = "PatentLandscapeAgent"
               THEN [risks EXCEPT !.ip_risk =
                        IF r.data.risk_score <= 300 THEN "Low"
                        ELSE IF r.data.risk_score <= 600 THEN "Moderate" ELSE "High"]
               ELSE IF r.agent_name = "MarketIntelligenceAgent"
               THEN [risks EXCEPT !.market_risk =
                        IF r.data.attractiveness_score >= 600 THEN "Low"
                        ELSE IF r.data.attractiveness_score >= 300 THEN "Moderate"
                        ELSE "High"]
               ELSE risks
         IN AssessDimensions(Tail(results), next)

\* risk_values with Unknown counted as High
risk_values_UnknownHigh(v) ==
    CASE v = "Low" -> 1 [] v = "Moderate" -> 2 [] v = "High" -> 3 [] OTHER -> 3

risk_values(v) ==
    CASE v = "Low" -> 1 [] v = "Moderate" -> 2 [] v = "High" -> 3 [] OTHER -> 2

\* _assess_overall_risk with the Low band ending at 2.1
_assess_overall_risk_LowBelow21(results) ==
    LET risks == AssessDimensions(results,
                    [clinical_risk |-> "Unknown", ip_risk |-> "Unknown",
                     market_risk |-> "Unknown", overall_risk |-> "Moderate"])
        total == risk_values(risks.clinical_risk) + risk_values(risks.ip_risk)
                 + risk_values(risks.market_risk)
    IN [risks EXCEPT !.overall_risk =
           IF total * 10 < 63 THEN "Low"
           ELSE IF total * 10 < 69 THEN "Moderate" ELSE "High"]

\* _assess_overall_risk with the Low band ending at 1.5
_assess_overall_risk_LowBelow15(results) ==
    LET risks == AssessDimensions(results,
                    [clinical_risk |-> "Unknown", ip_risk |-> "Unknown",
                     market_risk |-> "Unknown", overall_risk |-> "Moderate"])
        total == risk_values(risks.clinical_risk) + risk_values(risks.ip_risk)
                 + risk_values(risks.market_risk)
    IN [risks EXCEPT !.overall_risk =
           IF total * 10 < 45 THEN "Low"
           ELSE IF total * 10 < 69 THEN "Moderate" ELSE "High"]

\* avg_risk < 1.7 and avg_risk < 2.3, with avg_risk = total / 3
_assess_overall_risk(results) ==
    LET risks == AssessDimensions(results,
                    [clinical_risk |-> "Unknown", ip_risk |-> "Unknown",
                     market_risk |-> "Unknown", overall_risk |-> "Moderate"])
        total == risk_values(risks.clinical_risk) + risk_values(risks.ip_risk)
                 + risk_values(risks.market_risk)
    IN [risks EXCEPT !.overall_risk =
           IF total * 10 < 51 THEN "Low"
           ELSE IF total * 10 < 69 THEN "Moderate" ELSE "High"]

\* Lines 366-369
Recommendations(results) ==
    LET successful == Successful(results)
    IN [name \in {successful[i].agent_name : i \in 1..Len(successful)} |->
           LastSuccessData(results, name).recommendation]

FallbackSummary ==
    "Analysis completed across clinical, patent, market, and web intelligence domains."

\* _generate_executive_summary: self.llm.invoke raises when there is no
\* model or the call fails; the except branch returns the fixed sentence.
_generate_executive_summary(model, callFails) ==
    IF model = "none" \/ callFails THEN FallbackSummary ELSE "LLM executive summary"

_synthesize_report(decomposition, results, aggregated, summary) ==
    [ condition          |-> decomposition.condition,
      drug_name          |-> decomposition.drug_name,
      executive_summary  |-> summary,
      overall_confidence |-> aggregated.average_confidence,
      sections           |->
          [ clinical_intelligence |-> _format_clinical_section(results),
            patent_landscape      |-> _format_patent_section(results),
            market_intelligence   |-> _format_market_section(results),
            web_intelligence      |-> _format_web_section(results) ],
      recommendations    |-> Recommendations(results),
      risk_assessment    |-> _assess_overall_risk(results),
      data_sources       |-> aggregated.all_sources,
      metadata           |->
          [ agents_executed      |-> aggregated.total_agents,
            successful_agents    |-> aggregated.successful_agents,
            total_execution_time |-> aggregated.total_execution_time ] ]

\* ---------------------------------------------------------------- the state
VARIABLES
    llm,              \* MasterAgent.llm: "configured" or "none" (no GEMINI_API_KEY)
    query,            \* the query given to process_query
    pc,               \* where process_query is
    decomposition,    \* the QueryDecomposition in use
    path,             \* how it was obtained: "llm", "fallback", "raised"
    tasks,            \* agent name -> AgentTask
    agent_names,      \* the dispatched agent names, in order
    ready,            \* the event loop's queue of coroutines not yet started
    running,          \* the worker blocked in its provider calls, or "none"
    wstate,           \* per worker: "idle", "ready", "provider", "done"
    start_time,       \* per worker: start_time of its execute
    outcome,          \* per worker: what its execute met ("none" before)
    gathered,         \* per worker: what gather holds for its coroutine
    retrieved,        \* per worker: what its provider returned (NoResult before)
    provider_calls,   \* per worker: executions that reached a provider
    execution_count,  \* BaseAgent.execution_count, per worker
    success_count,    \* BaseAgent.success_count, per worker
    clock,            \* time.time(), seconds since process_query started
    dispatch_time,    \* clock when wait_for was entered
    timed_out,        \* wait_for raised TimeoutError
    results,          \* the list _execute_agents_parallel returned
    aggregated_data,  \* _aggregate_results(results)
    summary_failed,   \* the executive-summary model call failed
    envelope,         \* what process_query returned
    db_queries,       \* table queries: id -> committed row, or NoRow
    db_tasks,         \* table tasks: the committed rows
    db_reports,       \* table reports: the committed rows
    job,              \* the run_analysis_task call: its position and session
    sweep,            \* the cleanup_old_reports call: its position and session
    cache_store,      \* the Redis keys the cache holds, each with its value
    served            \* what the last cache operation did and returned

vars == << llm, query, pc, decomposition, path, tasks, agent_names, ready, running,
           wstate, start_time, outcome, gathered, provider_calls, execution_count,
           success_count, clock, dispatch_time, timed_out, results, aggregated_data,
           summary_failed, envelope, retrieved, db_queries, db_tasks, db_reports, job,
           sweep, cache_store, served >>

workerVars == << ready, running, wstate, start_time, outcome, gathered, retrieved,
                 provider_calls, execution_count, success_count >>

storeVars == << db_queries, db_tasks, db_reports, job, sweep, cache_store, served >>

NoDecomposition == [kind |-> "none"]

NoResult == [kind |-> "pending"]

NoAggregate == [kind |-> "none"]

NoEnvelope == [status |-> "pending"]

Zero == [w \in RegistrySet |-> 0]

\* What the provider handed to execute: the payload, unless the call failed
ProviderAnswer(oc) == IF oc.kind \in {"ok", "analysis"} THEN oc.payload ELSE NoResult

\* A database with no row, no call of a background task and an empty cache
QueryIds == 1..MaxQueries

NoRow == [present |-> FALSE]

IdleJob == [pc |-> "idle", query_id |-> 0, session |-> "closed", error |-> NoError]

IdleSweep == [pc |-> "idle", old_queries |-> {}, deleted_queries |-> 0]

NoServed == [op |-> "none"]

\* The cache object after construction: enabled when Redis answered the ping,
\* with the keys Redis holds
CacheManager(enabled) == [enabled |-> enabled, entries |-> {}]

FreshStore ==
    /\ db_queries = [q \in QueryIds |-> NoRow]
    /\ db_tasks = {}
    /\ db_reports = {}
    /\ job = IdleJob
    /\ sweep = IdleSweep
    /\ cache_store = CacheManager(TRUE)
    /\ served = NoServed

\* The workers of a freshly constructed MasterAgent
FreshWorkers ==
    /\ ready = <<>>
    /\ running = "none"
    /\ wstate = [w \in RegistrySet |-> "idle"]
    /\ start_time = Zero
    /\ outcome = [w \in RegistrySet |-> "none"]
    /\ gathered = [w \in RegistrySet |-> NoResult]
    /\ retrieved = [w \in RegistrySet |-> NoResult]
    /\ provider_calls = Zero
    /\ execution_count = Zero
    /\ success_count = Zero

Init ==
    /\ FreshStore
    /\ llm \in {"configured", "none"}
    /\ query \in Queries
    /\ pc = "start"
    /\ decomposition = NoDecomposition
    /\ path = "none"
    /\ tasks = [w \in {} |-> NoResult]
    /\ agent_names = <<>>
    /\ FreshWorkers
    /\ clock = 0
    /\ dispatch_time = 0
    /\ timed_out = FALSE
    /\ results = <<>>
    /\ aggregated_data = NoAggregate
    /\ summary_failed = FALSE
    /\ envelope = NoEnvelope

\* ------------------------------------------------------------- process_query
\* What the structured-extraction call returns: a QueryDecomposition, or it
\* fails (timeout, unparsable output).
LLMReplies ==
    { [failed |-> FALSE, value |-> d] : d \in LLMDecompositions } \cup
    { [failed |-> TRUE, value |-> NoDecomposition] }

\* _decompose_query.  The chain `prompt | self.llm | parser` is built before
\* the try block (line 158): with self.llm = None the `|` raises TypeError,
\* which leaves _decompose_query.  An exception of chain.invoke is caught
\* (lines 160-172) and answered by the fallback.
_decompose_query(model, q, reply) ==
    IF model = "none"
    THEN [raised |-> TRUE, error |-> "Expected a Runnable, callable or dict",
          path |-> "raised", value |-> NoDecomposition]
    ELSE IF reply.failed
    THEN [raised |-> FALSE, error |-> NoError, path |-> "fallback",
          value |-> _fallback_decomposition(q)]
    ELSE [raised |-> FALSE, error |-> NoError, path |-> "llm", value |-> reply.value]

\* except Exception as e (lines 119-128)
FailureEnvelope(error) ==
    [ status |-> "failed", error |-> error, agent_results |-> <<>>,
      aggregated_data |-> NoAggregate, final_report |-> [kind |-> "none"] ]

\* Step 1 of process_query
DecomposeQuery ==
    /\ pc = "start"
    /\ \E reply \in LLMReplies :
         LET d == _decompose_query(llm, query, reply)
         IN /\ path' = d.path
            /\ decomposition' = d.value
            /\ IF d.raised
               THEN /\ envelope' = FailureEnvelope(d.error)
                    /\ pc' = "done"
               ELSE /\ envelope' = envelope
                    /\ pc' = "decomposed"
    /\ UNCHANGED << storeVars, llm, query, tasks, agent_names, workerVars, clock, dispatch_time,
                    timed_out, results, aggregated_data, summary_failed >>

\* Steps 2 and 3 up to the await: the tasks, one coroutine per task in the
\* order of the dict, gather and wait_for
DispatchAgents ==
    /\ pc = "decomposed"
    /\ tasks' = _create_agent_tasks(decomposition, clock)
    /\ agent_names' = KeysInOrder(Registry, DOMAIN tasks')
    /\ ready' = agent_names'
    /\ wstate' = [w \in RegistrySet |-> IF w \in DOMAIN tasks' THEN "ready" ELSE "idle"]
    /\ dispatch_time' = clock
    /\ pc' = "dispatched"
    /\ UNCHANGED << storeVars, llm, query, decomposition, path, running, start_time,
                    outcome, retrieved, gathered, provider_calls, execution_count, success_count, clock,
                    timed_out, results, aggregated_data, summary_failed, envelope >>

\* ----------------------------------------------------------- the event loop
\* The loop runs the queued coroutines first in, first out.  No execute
\* contains an await: once started, a coroutine keeps the loop's thread until
\* it returns.  StartWorker is execute up to its first provider call (or up
\* to the early return of a validation failure); FinishWorker is the rest.
StartWorker(w) ==
    /\ pc = "dispatched"
    /\ running = "none"
    /\ ready # <<>>
    /\ w = Head(ready)
    /\ ready' = Tail(ready)
    /\ start_time' = [start_time EXCEPT ![w] = clock]
    /\ IF ShortCircuitError(w, tasks[w]) # ""
       THEN /\ gathered' = [gathered EXCEPT ![w] = InvalidResult(w, tasks[w])]
            /\ execution_count' = [execution_count EXCEPT ![w] = @ + 1]
            /\ wstate' = [wstate EXCEPT ![w] = "done"]
            /\ UNCHANGED << running, provider_calls >>
       ELSE /\ running' = w
            /\ provider_calls' = [provider_calls EXCEPT ![w] = @ + 1]
            /\ wstate' = [wstate EXCEPT ![w] = "provider"]
            /\ UNCHANGED << gathered, execution_count >>
    /\ UNCHANGED << storeVars, llm, query, pc, decomposition, path, tasks, agent_names,
                    outcome, retrieved,
                    success_count, clock, dispatch_time, timed_out, results,
                    aggregated_data, summary_failed, envelope >>

\* FinishWorker of a dispatcher that interrupts its workers: a worker whose
\* provider call ends after the deadline is cancelled and leaves no Result
FinishWorker_Interrupted(w) ==
    /\ pc = "dispatched"
    /\ running = w
    /\ \E oc \in Outcomes(w), secs \in CallSeconds(w) :
         LET r == Execute(w, tasks[w], oc, start_time[w], clock + secs)
             cancelled == clock + secs - dispatch_time >= AGENT_TIMEOUT_SECONDS
         IN /\ clock' = clock + secs
            /\ outcome' = [outcome EXCEPT ![w] = oc.kind]
            /\ gathered' = [gathered EXCEPT ![w] =
                             IF cancelled THEN [exc |-> "CancelledError"] ELSE r]
            /\ retrieved' = [retrieved EXCEPT ![w] = ProviderAnswer(oc)]
            /\ execution_count' = [execution_count EXCEPT ![w] =
                                      IF IsException(r) \/ cancelled THEN @ ELSE @ + 1]
            /\ success_count' = [success_count EXCEPT ![w] =
                                    IF ~cancelled /\ ~IsException(r) /\ r.status = "success"
                                    THEN @ + 1 ELSE @]
            /\ wstate' = [wstate EXCEPT ![w] = IF cancelled THEN "cancelled" ELSE "done"]
    /\ running' = "none"
    /\ UNCHANGED << storeVars, llm, query, pc, decomposition, path, tasks, agent_names, ready,
                    start_time, provider_calls, dispatch_time, timed_out, results,
                    aggregated_data, summary_failed, envelope >>

\* FinishWorker of a _create_result that counts a success whatever the status
FinishWorker_CountsAnyStatus(w) ==
    /\ pc = "dispatched"
    /\ running = w
    /\ \E oc \in Outcomes(w), secs \in CallSeconds(w) :
         LET r == Execute(w, tasks[w], oc, start_time[w], clock + secs)
         IN /\ clock' = clock + secs
            /\ outcome' = [outcome EXCEPT ![w] = oc.kind]
            /\ gathered' = [gathered EXCEPT ![w] = r]
            /\ retrieved' = [retrieved EXCEPT ![w] = ProviderAnswer(oc)]
            /\ execution_count' = [execution_count EXCEPT ![w] =
                                      IF IsException(r) THEN @ ELSE @ + 1]
            /\ success_count' = [success_count EXCEPT ![w] =
                                    IF IsException(r) THEN @ ELSE @ + 1]
    /\ running' = "none"
    /\ wstate' = [wstate EXCEPT ![w] = "done"]
    /\ UNCHANGED << storeVars, llm, query, pc, decomposition, path, tasks, agent_names, ready,
                    start_time, provider_calls, dispatch_time, timed_out, results,
                    aggregated_data, summary_failed, envelope >>

FinishWorker(w) ==
    /\ pc = "dispatched"
    /\ running = w
    /\ \E oc \in Outcomes(w), secs \in CallSeconds(w) :
         LET r == Execute(w, tasks[w], oc, start_time[w], clock + secs)
         IN /\ clock' = clock + secs
            /\ outcome' = [outcome EXCEPT ![w] = oc.kind]
            /\ gathered' = [gathered EXCEPT ![w] = r]
            /\ retrieved' = [retrieved EXCEPT ![w] = ProviderAnswer(oc)]
            \* _create_result counts every Result it builds
            /\ execution_count' = [execution_count EXCEPT ![w] =
                                      IF IsException(r) THEN @ ELSE @ + 1]
            /\ success_count' = [success_count EXCEPT ![w] =
                                    IF ~IsException(r) /\ r.status = "success"
                                    THEN @ + 1 ELSE @]
    /\ running' = "none"
    /\ wstate' = [wstate EXCEPT ![w] = "done"]
    /\ UNCHANGED << storeVars, llm, query, pc, decomposition, path, tasks, agent_names, ready,
                    start_time, provider_calls, dispatch_time, timed_out, results,
                    aggregated_data, summary_failed, envelope >>

\* wait_for(gather(...), timeout) seen from the awaiting coroutine.  The
\* timer and the completion of gather are both handled by the loop, which
\* gets the thread back only when no coroutine is running; by then every
\* queued coroutine has run.  If the deadline has passed by then, whether
\* wait_for returns gather's list or raises TimeoutError depends on the
\* asyncio version: both are possible.
Overdue == clock - dispatch_time >= AGENT_TIMEOUT_SECONDS

WaitForRaises == IF Overdue THEN {TRUE, FALSE} ELSE {FALSE}

\* Lines 282-308 after the await
_execute_agents_parallel(names, taskMap, gatheredMap, timeout) ==
    IF timeout THEN <<>> ELSE ProcessGathered(names, taskMap, gatheredMap)

Collect ==
    /\ pc = "dispatched"
    /\ running = "none"
    /\ ready = <<>>
    /\ \E timeout \in WaitForRaises :
         /\ timed_out' = timeout
         /\ results' = _execute_agents_parallel(agent_names, tasks, gathered, timeout)
    /\ pc' = "collected"
    /\ UNCHANGED << storeVars, llm, query, decomposition, path, tasks, agent_names, workerVars,
                    clock, dispatch_time, aggregated_data, summary_failed, envelope >>

\* Step 4, and step 5 up to the executive-summary model call
Aggregate ==
    /\ pc = "collected"
    /\ aggregated_data' = _aggregate_results(results)
    /\ pc' = "summarizing"
    /\ UNCHANGED << storeVars, llm, query, decomposition, path, tasks, agent_names, workerVars,
                    clock, dispatch_time, timed_out, results, summary_failed, envelope >>

\* The rest of step 5 and the return of process_query
Synthesize ==
    /\ pc = "summarizing"
    /\ \E callFails \in BOOLEAN :
         /\ summary_failed' = (llm = "none" \/ callFails)
         /\ envelope' =
              [ status          |-> "completed",
                error           |-> NoError,
                agent_results   |-> results,
                aggregated_data |-> aggregated_data,
                final_report    |->
                    _synthesize_report(decomposition, results, aggregated_data,
                                       _generate_executive_summary(llm, callFails)) ]
    /\ pc' = "done"
    /\ UNCHANGED << storeVars, llm, query, decomposition, path, tasks, agent_names, workerVars,
                    clock, dispatch_time, timed_out, results, aggregated_data >>

Next ==
    \/ DecomposeQuery
    \/ DispatchAgents
    \/ \E w \in RegistrySet : StartWorker(w)
    \/ \E w \in RegistrySet : FinishWorker(w)
    \/ Collect
    \/ Aggregate
    \/ Synthesize

Spec == Init /\ [][Next]_vars

\* ------------------------------------------- execute called on any AgentTask
\* _execute_agents_parallel given a tasks dict directly: one worker and any
\* task (empty description, parameters missing or empty).
TaskParameters ==
    UNION { [keys -> {"", "Asthma"}] : keys \in SUBSET {"condition", "drug_name"} }

TaskInputs ==
    { [task_id |-> <<"direct", 0>>, description |-> d, parameters |-> p] :
        d \in { <<>>, <<"Analyze">> }, p \in TaskParameters }

InitExecute ==
    /\ FreshStore
    /\ llm \in {"configured", "none"}
    /\ query = <<>>
    /\ pc = "dispatched"
    /\ decomposition = NoDecomposition
    /\ path = "none"
    /\ \E w \in RegistrySet, t \in TaskInputs :
         /\ tasks = [v \in {w} |-> t]
         /\ agent_names = <<w>>
         /\ ready = <<w>>
         /\ wstate = [v \in RegistrySet |-> IF v = w THEN "ready" ELSE "idle"]
    /\ running = "none"
    /\ start_time = Zero
    /\ outcome = [w \in RegistrySet |-> "none"]
    /\ gathered = [w \in RegistrySet |-> NoResult]
    /\ retrieved = [w \in RegistrySet |-> NoResult]
    /\ provider_calls = Zero
    /\ execution_count = Zero
    /\ success_count = Zero
    /\ clock = 0
    /\ dispatch_time = 0
    /\ timed_out = FALSE
    /\ results = <<>>
    /\ aggregated_data = NoAggregate
    /\ summary_failed = FALSE
    /\ envelope = NoEnvelope

NextExecute ==
    \/ \E w \in RegistrySet : StartWorker(w)
    \/ \E w \in RegistrySet : FinishWorker(w)
    \/ Collect

SpecExecute == InitExecute /\ [][NextExecute]_vars

\* -------------------------------- several execute calls on one worker instance
\* Up to MaxCalls coroutines of the same instance's execute are queued on the
\* event loop at once (calls that overlap in time); the loop runs them first
\* in, first out, each to its return.
InitCounters ==
    /\ FreshStore
    /\ llm = "configured"
    /\ query = <<>>
    /\ pc = "dispatched"
    /\ decomposition = NoDecomposition
    /\ path = "none"
    /\ \E w \in RegistrySet, t \in TaskInputs, n \in 1..MaxCalls :
         /\ tasks = [v \in {w} |-> t]
         /\ agent_names = <<w>>
         /\ ready = Rep(n, w)
         /\ wstate = [v \in RegistrySet |-> IF v = w THEN "ready" ELSE "idle"]
    /\ running = "none"
    /\ start_time = Zero
    /\ outcome = [w \in RegistrySet |-> "none"]
    /\ gathered = [w \in RegistrySet |-> NoResult]
    /\ retrieved = [w \in RegistrySet |-> NoResult]
    /\ provider_calls = Zero
    /\ execution_count = Zero
    /\ success_count = Zero
    /\ clock = 0
    /\ dispatch_time = 0
    /\ timed_out = FALSE
    /\ results = <<>>
    /\ aggregated_data = NoAggregate
    /\ summary_failed = FALSE
    /\ envelope = NoEnvelope

NextCounters ==
    \/ \E w \in RegistrySet : StartWorker(w)
    \/ \E w \in RegistrySet : FinishWorker(w)

SpecCounters == InitCounters /\ [][NextCounters]_vars

\* ----------------------------- aggregate and synthesize on any Result list
\* _aggregate_results and _synthesize_report given a Result list directly:
\* at most one Result per worker (tasks is a dict keyed by the worker's name),
\* each one a Result that worker can return, in any order.
AggregateDecomposition ==
    [ condition |-> "Type 2 Diabetes", drug_name |-> "Metformin",
      analysis_type |-> "repurposing", required_agents |-> RegistrySet,
      parameters |-> [region |-> "Global"] ]

\* The same with no drug named: the patent and the web worker refuse the task
NoDrugDecomposition == [AggregateDecomposition EXCEPT !.drug_name = ""]

\* What _execute_agents_parallel can hold for worker w
WorkerResults(w) ==
    LET valid == _create_agent_tasks(AggregateDecomposition, 0)
        nodrug == _create_agent_tasks(NoDrugDecomposition, 0)
    IN { ProcessGathered(<<w>>, valid,
                         [v \in {w} |-> Execute(w, valid[w], oc, 0, secs)])[1] :
             oc \in Outcomes(w), secs \in CallSeconds(w) }
       \cup (IF ShortCircuitError(w, nodrug[w]) # ""
             THEN {InvalidResult(w, nodrug[w])} ELSE {})

\* The orders in which the workers of W can stand in a list
Orderings(W) ==
    { o \in [1..Cardinality(W) -> W] : \A i, j \in 1..Cardinality(W) : i # j => o[i] # o[j] }

InitAggregate ==
    /\ FreshStore
    /\ llm = "configured"
    /\ query = <<"Metformin", "for", "diabetes">>
    /\ pc = "collected"
    /\ decomposition = AggregateDecomposition
    /\ path = "llm"
    /\ tasks = _create_agent_tasks(AggregateDecomposition, 0)
    /\ agent_names = Registry
    /\ FreshWorkers
    /\ clock = 0
    /\ dispatch_time = 0
    /\ timed_out = FALSE
    /\ \E rc \in WorkerResults("clinical"), rp \in WorkerResults("patent"),
          rm \in WorkerResults("market"), rw \in WorkerResults("web") :
         LET of == [w \in RegistrySet |->
                       CASE w = "clinical" -> rc [] w = "patent" -> rp
                         [] w = "market" -> rm [] w = "web" -> rw]
         IN \E W \in SUBSET RegistrySet : \E o \in Orderings(W) :
                results = [i \in 1..Cardinality(W) |-> of[o[i]]]
    /\ aggregated_data = NoAggregate
    /\ summary_failed = FALSE
    /\ envelope = NoEnvelope

NextAggregate ==
    \/ Aggregate
    \/ Synthesize

SpecAggregate == InitAggregate /\ [][NextAggregate]_vars

\* ---------------------------------------- execute on provider answers of any size
\* One worker, a valid task, and a provider that answers with any of
\* AnyPayloads
FinishScored(w) ==
    /\ pc = "dispatched"
    /\ running = w
    /\ \E p \in AnyPayloads(w), secs \in CallSeconds(w) :
         LET r == Execute(w, tasks[w], [kind |-> "ok", payload |-> p],
                          start_time[w], clock + secs)
         IN /\ clock' = clock + secs
            /\ outcome' = [outcome EXCEPT ![w] = "ok"]
            /\ gathered' = [gathered EXCEPT ![w] = r]
            /\ retrieved' = [retrieved EXCEPT ![w] = p]
            /\ execution_count' = [execution_count EXCEPT ![w] = @ + 1]
            /\ success_count' = [success_count EXCEPT ![w] =
                                    IF r.status = "success" THEN @ + 1 ELSE @]
    /\ running' = "none"
    /\ wstate' = [wstate EXCEPT ![w] = "done"]
    /\ UNCHANGED << storeVars, llm, query, pc, decomposition, path, tasks, agent_names, ready,
                    start_time, provider_calls, dispatch_time, timed_out, results,
                    aggregated_data, summary_failed, envelope >>

InitScores ==
    /\ FreshStore
    /\ llm = "configured"
    /\ query = <<"Metformin", "for", "diabetes">>
    /\ pc = "dispatched"
    /\ decomposition = AggregateDecomposition
    /\ path = "llm"
    /\ \E w \in RegistrySet :
         /\ tasks = [v \in {w} |-> _create_agent_tasks(AggregateDecomposition, 0)[v]]
         /\ agent_names = <<w>>
         /\ ready = <<w>>
         /\ wstate = [v \in RegistrySet |-> IF v = w THEN "ready" ELSE "idle"]
    /\ running = "none"
    /\ start_time = Zero
    /\ outcome = [w \in RegistrySet |-> "none"]
    /\ gathered = [w \in RegistrySet |-> NoResult]
    /\ retrieved = [w \in RegistrySet |-> NoResult]
    /\ provider_calls = Zero
    /\ execution_count = Zero
    /\ success_count = Zero
    /\ clock = 0
    /\ dispatch_time = 0
    /\ timed_out = FALSE
    /\ results = <<>>
    /\ aggregated_data = NoAggregate
    /\ summary_failed = FALSE
    /\ envelope = NoEnvelope

NextScores ==
    \/ \E w \in RegistrySet : StartWorker(w)
    \/ \E w \in RegistrySet : FinishScored(w)
    \/ Collect

SpecScores == InitScores /\ [][NextScores]_vars

\* ------------------------------------ the risk roll-up next to its thresholds
\* _aggregate_results and _synthesize_report on the Result lists of a batch
\* whose providers answered with RiskPayloads: every worker is missing, has
\* failed, or has succeeded.
RiskResults(w) ==
    LET valid == _create_agent_tasks(AggregateDecomposition, 0)
    IN { Execute(w, valid[w], [kind |-> "ok", payload |-> p], 0, 0) : p \in RiskPayloads(w) }
       \cup { FailedResult(w, valid[w], AnalysisErrorText, 0, 0) }

InitRisk ==
    /\ FreshStore
    /\ llm = "configured"
    /\ query = <<"Metformin", "for", "diabetes">>
    /\ pc = "collected"
    /\ decomposition = AggregateDecomposition
    /\ path = "llm"
    /\ tasks = _create_agent_tasks(AggregateDecomposition, 0)
    /\ agent_names = Registry
    /\ FreshWorkers
    /\ clock = 0
    /\ dispatch_time = 0
    /\ timed_out = FALSE
    /\ \E rc \in RiskResults("clinical"), rp \in RiskResults("patent"),
          rm \in RiskResults("market"), rw \in RiskResults("web") :
         LET of == [w \in RegistrySet |->
                       CASE w = "clinical" -> rc [] w = "patent" -> rp
                         [] w = "market" -> rm [] w = "web" -> rw]
         IN \E W \in SUBSET RegistrySet :
                LET present == KeysInOrder(Registry, W)
                IN results = [i \in 1..Len(present) |-> of[present[i]]]
    /\ aggregated_data = NoAggregate
    /\ summary_failed = FALSE
    /\ envelope = NoEnvelope

SpecRisk == InitRisk /\ [][NextAggregate]_vars

\* ======================================================= the background tasks
\* run_analysis_task works on the database through a session of its own;
\* what another session sees is what a commit wrote.  One action is the code
\* up to and including one db.commit().
QueryRow(status, old) == [present |-> TRUE, status |-> status, old |-> old]

TaskRow(query_id, agent_type, run, status, error) ==
    [ id |-> <<query_id, agent_type, run>>, query_id |-> query_id,
      agent_type |-> agent_type, status |-> status, error |-> error ]

\* The text of the exception a failing flush or commit raises
DatabaseErrorText == "sqlalchemy.exc.OperationalError"

\* db.commit(): it can fail on the database's side, and it does fail when
\* the rows it writes hang on a query row that is gone
CommitFails(query_id) == IF db_queries[query_id].present THEN {TRUE, FALSE} ELSE {TRUE}

\* An exception leaves the try block (line 123).  A failed commit has rolled
\* the session's transaction back, and the session refuses further work
\* until Session.rollback() is called.
Raise(error, failed_commit) ==
    [job EXCEPT !.pc = "handling", !.error = error,
                !.session = IF failed_commit THEN "needs_rollback" ELSE @]

\* dict.get
DictGet(d, key) == IF key \in DOMAIN d THEN d[key] ELSE NoError

\* Lines 69-72: the first entry of agent_results whose "agent_type" is the
\* task record's
AgentResultFor(result, agent_type) ==
    SelectSeq(result.agent_results, LAMBDA r : DictGet(r, "agent_type") = agent_type)

\* Lines 74-82: the task record after the update
UpdatedTaskRecord(record, result) ==
    LET found == AgentResultFor(result, record.agent_type)
    IN IF found # <<>>
       THEN [record EXCEPT
                !.status = IF "success" \in DOMAIN Head(found) /\ Head(found).success = TRUE
                           THEN "completed" ELSE "failed",
                !.error = DictGet(Head(found), "error")]
       ELSE [record EXCEPT !.status = "failed", !.error = "No result from agent"]

\* _extract_report_data: one section per "agent_type" of agent_results
\* ("unknown" without the key) and one drug candidate
ReportSections(result) ==
    { IF "agent_type" \in DOMAIN result.agent_results[i]
      THEN result.agent_results[i].agent_type ELSE "unknown" :
          i \in 1..Len(result.agent_results) }

ReportRow(query_id, result, candidates) ==
    [ query_id |-> query_id, sections |-> ReportSections(result),
      drug_candidates |-> candidates ]

analysisVars == << llm, query, pc, decomposition, path, tasks, agent_names, workerVars,
                   clock, dispatch_time, timed_out, results, aggregated_data,
                   summary_failed, envelope >>

\* Lines 31-38
BeginAnalysis ==
    /\ job.pc = "start"
    /\ IF ~db_queries[job.query_id].present
       THEN /\ job' = Raise("Query not found", FALSE)
            /\ UNCHANGED db_queries
       ELSE \E fails \in CommitFails(job.query_id) :
              IF fails
              THEN /\ job' = Raise(DatabaseErrorText, TRUE)
                   /\ UNCHANGED db_queries
              ELSE /\ db_queries' = [db_queries EXCEPT ![job.query_id].status = "processing"]
                   /\ job' = [job EXCEPT !.pc = "processing"]
    /\ UNCHANGED << analysisVars, db_tasks, db_reports, sweep, cache_store, served >>

\* Lines 40-54
CreateTaskRecords ==
    /\ job.pc = "processing"
    /\ \E fails \in CommitFails(job.query_id) :
         IF fails
         THEN /\ job' = Raise(DatabaseErrorText, TRUE)
              /\ UNCHANGED db_tasks
         ELSE /\ db_tasks' = db_tasks \cup
                    { TaskRow(job.query_id, Registry[i], 1, "pending", NoError) :
                        i \in 1..Len(Registry) }
              /\ job' = [job EXCEPT !.pc = "tasks_created"]
    /\ UNCHANGED << analysisVars, db_queries, db_reports, sweep, cache_store, served >>

\* Lines 56-63 up to the call: a MasterAgent of its own, and process_query
StartProcessQuery ==
    /\ job.pc = "tasks_created"
    /\ pc = "idle"
    /\ pc' = "start"
    /\ job' = [job EXCEPT !.pc = "analysing"]
    /\ UNCHANGED << llm, query, decomposition, path, tasks, agent_names, workerVars,
                    clock, dispatch_time, timed_out, results, aggregated_data,
                    summary_failed, envelope, db_queries, db_tasks, db_reports, sweep,
                    cache_store, served >>

\* Lines 67-84
UpdateTaskRecords ==
    /\ job.pc = "analysing"
    /\ pc = "done"
    /\ \E fails \in CommitFails(job.query_id) :
         IF fails
         THEN /\ job' = Raise(DatabaseErrorText, TRUE)
              /\ UNCHANGED db_tasks
         ELSE /\ db_tasks' =
                    { IF t.query_id = job.query_id /\ t.id[3] = 1
                      THEN UpdatedTaskRecord(t, envelope) ELSE t : t \in db_tasks }
              /\ job' = [job EXCEPT !.pc = "tasks_updated"]
    /\ UNCHANGED << analysisVars, db_queries, db_reports, sweep, cache_store, served >>

\* Lines 86-96: _extract_report_data and ReportService.create_report
CreateReport ==
    /\ job.pc = "tasks_updated"
    /\ \E fails \in CommitFails(job.query_id) :
         IF fails
         THEN /\ job' = Raise(DatabaseErrorText, TRUE)
              /\ UNCHANGED db_reports
         ELSE /\ db_reports' = db_reports \cup {ReportRow(job.query_id, envelope, 0)}
              /\ job' = [job EXCEPT !.pc = "reported"]
    /\ UNCHANGED << analysisVars, db_queries, db_tasks, sweep, cache_store, served >>

\* Lines 98-109: ReportService.create_drug_candidate for the one candidate
CreateDrugCandidates ==
    /\ job.pc = "reported"
    /\ \E fails \in CommitFails(job.query_id) :
         IF fails
         THEN /\ job' = Raise(DatabaseErrorText, TRUE)
              /\ UNCHANGED db_reports
         ELSE /\ db_reports' = (db_reports \ {ReportRow(job.query_id, envelope, 0)})
                                   \cup {ReportRow(job.query_id, envelope, 1)}
              /\ job' = [job EXCEPT !.pc = "candidates_created"]
    /\ UNCHANGED << analysisVars, db_queries, db_tasks, sweep, cache_store, served >>

\* Lines 111-121
CompleteAnalysis ==
    /\ job.pc = "candidates_created"
    /\ \E fails \in CommitFails(job.query_id) :
         IF fails
         THEN /\ job' = Raise(DatabaseErrorText, TRUE)
              /\ UNCHANGED db_queries
         ELSE /\ db_queries' = [db_queries EXCEPT ![job.query_id].status = "completed"]
              /\ job' = [job EXCEPT !.pc = "returned"]
    /\ UNCHANGED << analysisVars, db_tasks, db_reports, sweep, cache_store, served >>

\* The worker's soft time limit (task_soft_time_limit of celery_app.py,
\* AGENT_TIMEOUT_SECONDS - 30) passes while the task is between
\* process_query's return and its own return: SoftTimeLimitExceeded is raised
SoftTimeLimit ==
    /\ \/ job.pc = "analysing" /\ pc = "done"
       \/ job.pc \in {"tasks_updated", "reported", "candidates_created"}
    /\ clock >= AGENT_TIMEOUT_SECONDS - 30
    /\ job' = Raise("SoftTimeLimitExceeded()", FALSE)
    /\ UNCHANGED << analysisVars, db_queries, db_tasks, db_reports, sweep, cache_store,
                    served >>

\* Lines 123-129.  db.query on a session that needs a rollback raises
\* PendingRollbackError, which leaves the handler (and the task) at once.
\* The handler's own commits are taken to succeed.
FailQuery ==
    /\ job.pc = "handling"
    /\ IF job.session = "needs_rollback"
       THEN /\ job' = [job EXCEPT !.pc = "raised", !.error = "sqlalchemy.exc.PendingRollbackError"]
            /\ UNCHANGED db_queries
       ELSE IF ~db_queries[job.query_id].present
       THEN /\ job' = [job EXCEPT !.pc = "query_failed"]
            /\ UNCHANGED db_queries
       ELSE /\ db_queries' = [db_queries EXCEPT ![job.query_id].status = "failed"]
            /\ job' = [job EXCEPT !.pc = "query_failed"]
    /\ UNCHANGED << analysisVars, db_tasks, db_reports, sweep, cache_store, served >>

\* Lines 131-144
FailTasks ==
    /\ job.pc = "query_failed"
    /\ db_tasks' =
           { IF t.query_id = job.query_id /\ t.status \in {"pending", "running"}
             THEN [t EXCEPT !.status = "failed", !.error = job.error]
             ELSE t : t \in db_tasks }
    /\ job' = [job EXCEPT !.pc = "raised"]
    /\ UNCHANGED << analysisVars, db_queries, db_reports, sweep, cache_store, served >>

\* run_analysis_task(query_id) called for a query just created (create_query
\* in api/routes/queries.py), or for an id with no row
InitAnalysis ==
    /\ llm \in {"configured", "none"}
    /\ query \in { <<"Metformin", "for", "diabetes">>, <<"aspirin", "for", "it">> }
    /\ pc = "idle"
    /\ decomposition = NoDecomposition
    /\ path = "none"
    /\ tasks = [w \in {} |-> NoResult]
    /\ agent_names = <<>>
    /\ FreshWorkers
    /\ clock = 0
    /\ dispatch_time = 0
    /\ timed_out = FALSE
    /\ results = <<>>
    /\ aggregated_data = NoAggregate
    /\ summary_failed = FALSE
    /\ envelope = NoEnvelope
    /\ db_queries = [q \in QueryIds |-> IF q = 1 THEN QueryRow("pending", FALSE) ELSE NoRow]
    /\ db_tasks = {}
    /\ db_reports = {}
    /\ \E q \in QueryIds : job = [IdleJob EXCEPT !.pc = "start", !.query_id = q,
                                                  !.session = "active"]
    /\ sweep = IdleSweep
    /\ cache_store = CacheManager(TRUE)
    /\ served = NoServed

NextAnalysis ==
    \/ BeginAnalysis
    \/ CreateTaskRecords
    \/ StartProcessQuery
    \/ UpdateTaskRecords
    \/ CreateReport
    \/ CreateDrugCandidates
    \/ CompleteAnalysis
    \/ SoftTimeLimit
    \/ FailQuery
    \/ FailTasks
    \/ Next

SpecAnalysis == InitAnalysis /\ [][NextAnalysis]_vars

\* --------------------------------------------------------- cleanup_old_reports
\* Lines 231-242: the queries created before the cutoff that are 'completed'
\* or 'failed', as the session sees them now
SelectOldQueries ==
    /\ sweep.pc = "start"
    /\ LET old_queries == { q \in QueryIds : /\ db_queries[q].present
                                             /\ db_queries[q].old
                                             /\ db_queries[q].status \in {"completed", "failed"} }
       IN sweep' = [ pc |-> "selected", old_queries |-> old_queries,
                     deleted_queries |-> Cardinality(old_queries) ]
    /\ UNCHANGED << analysisVars, db_queries, db_tasks, db_reports, job, cache_store,
                    served >>

\* Lines 244-255: db.delete of every selected Query object and the commit
\* (DELETE ... WHERE id = ?, with the rows that hang on it); a failing commit
\* leaves the task as an exception
DeleteOldQueries ==
    /\ sweep.pc = "selected"
    /\ \E fails \in BOOLEAN :
         IF fails
         THEN /\ sweep' = [sweep EXCEPT !.pc = "raised"]
              /\ UNCHANGED << db_queries, db_tasks, db_reports >>
         ELSE /\ db_queries' = [q \in QueryIds |->
                                   IF q \in sweep.old_queries THEN NoRow ELSE db_queries[q]]
              /\ db_tasks' = {t \in db_tasks : t.query_id \notin sweep.old_queries}
              /\ db_reports' = {r \in db_reports : r.query_id \notin sweep.old_queries}
              /\ sweep' = [sweep EXCEPT !.pc = "returned"]
    /\ UNCHANGED << analysisVars, job, cache_store, served >>

\* The rows an earlier run_analysis_task left for a query it brought to
\* 'completed' or 'failed'
EarlierTasks(q) ==
    { TaskRow(q, Registry[i], 0, "failed", "No result from agent") : i \in 1..Len(Registry) }

\* cleanup_old_reports and one run_analysis_task, called for any query id,
\* side by side; no model is configured
InitCleanup ==
    /\ llm = "none"
    /\ query = <<"Metformin", "for", "diabetes">>
    /\ pc = "idle"
    /\ decomposition = NoDecomposition
    /\ path = "none"
    /\ tasks = [w \in {} |-> NoResult]
    /\ agent_names = <<>>
    /\ FreshWorkers
    /\ clock = 0
    /\ dispatch_time = 0
    /\ timed_out = FALSE
    /\ results = <<>>
    /\ aggregated_data = NoAggregate
    /\ summary_failed = FALSE
    /\ envelope = NoEnvelope
    /\ db_queries \in [ QueryIds -> {NoRow} \cup { QueryRow(status, old) :
                                                    status \in {"pending", "completed", "failed"},
                                                    old \in BOOLEAN } ]
    /\ db_tasks = UNION { EarlierTasks(q) :
                            q \in {i \in QueryIds : /\ db_queries[i].present
                                                    /\ db_queries[i].status # "pending"} }
    /\ db_reports = { [query_id |-> q, sections |-> {}, drug_candidates |-> 1] :
                        q \in {i \in QueryIds : /\ db_queries[i].present
                                                /\ db_queries[i].status = "completed"} }
    /\ \E q \in QueryIds : job = [IdleJob EXCEPT !.pc = "start", !.query_id = q,
                                                  !.session = "active"]
    /\ sweep = [IdleSweep EXCEPT !.pc = "start"]
    /\ cache_store = CacheManager(TRUE)
    /\ served = NoServed

NextCleanup ==
    \/ BeginAnalysis
    \/ CreateTaskRecords
    \/ StartProcessQuery
    \/ DecomposeQuery
    \/ UpdateTaskRecords
    \/ CreateReport
    \/ CreateDrugCandidates
    \/ CompleteAnalysis
    \/ FailQuery
    \/ FailTasks
    \/ SelectOldQueries
    \/ DeleteOldQueries

SpecCleanup == InitCleanup /\ [][NextCleanup]_vars

\* -------------------------------------------------------------- the cache layer
\* A Redis key is its text cut at the colons; a segment is a literal text, the
\* decimal text of an integer, the hex digest of the hashed key data, or the
\* '*' of a pattern
Text(s) == [kind |-> "text", text |-> s, args |-> <<>>]

IntText(n) == [kind |-> "int", text |-> "", args |-> <<n>>]

Star == [kind |-> "star", text |-> "*", args |-> <<>>]

\* Python's None, as a function's value and as the answer of a cache miss
NoValue == [kind |-> "none"]

\* cache:{prefix}:{md5 of prefix, args and kwargs}
_make_key(prefix, args) ==
    << Text("cache"), Text(prefix), [kind |-> "md5", text |-> prefix, args |-> args] >>

\* KEYS pattern of Redis: a '*' standing between two colons matches any text,
\* that is one segment or more; every other segment matches itself
RECURSIVE GlobMatch(_, _)
GlobMatch(pattern, key) ==
    IF pattern = <<>> THEN key = <<>>
    ELSE IF key = <<>> THEN FALSE
    ELSE IF Head(pattern) = Star
         THEN \/ GlobMatch(Tail(pattern), Tail(key))
              \/ GlobMatch(pattern, Tail(key))
         ELSE /\ Head(pattern) = Head(key)
              /\ GlobMatch(Tail(pattern), Tail(key))

\* Lines 76-88: the entries left once the keys matching the pattern are deleted
clear_pattern(cache, pattern) ==
    IF ~cache.enabled THEN cache
    ELSE [cache EXCEPT !.entries = {e \in @ : ~GlobMatch(pattern, e.key)}]

\* Lines 90-93
invalidate_query(cache, query_id) ==
    clear_pattern(
        clear_pattern(cache, << Text("cache"), Text("query"), IntText(query_id), Star >>),
        << Text("cache"), Text("report"), Star, Text("query"), IntText(query_id), Star >>)

\* QueryService.get_query_status as get_cached_query_status calls it: the
\* status of the row and the progress of its task records, None without a row
get_query_status(query_id) ==
    IF ~db_queries[query_id].present THEN NoValue
    ELSE [ status |-> db_queries[query_id].status,
           total |-> Cardinality({t \in db_tasks : t.query_id = query_id}),
           failed |-> Cardinality({t \in db_tasks : /\ t.query_id = query_id
                                                    /\ t.status = "failed"}) ]

\* QueryService.get_analysis_result as get_cached_query_result calls it
get_analysis_result(query_id) ==
    IF ~db_queries[query_id].present THEN NoValue
    ELSE [ status |-> db_queries[query_id].status,
           tasks |-> Cardinality({t \in db_tasks : t.query_id = query_id}),
           report |-> \E r \in db_reports : r.query_id = query_id ]

\* Lines 109-128, the wrapper of cached(prefix, ttl): the cached value when
\* there is one, else the function's value, stored under the key
CachedCall(prefix, query_id, computed) ==
    LET cache_key == _make_key(prefix, <<query_id>>)
        \* cache.get, lines 37-49: None when the cache is off or holds nothing
        \* under the key
        cached_result ==
            IF cache_store.enabled /\ \E e \in cache_store.entries : e.key = cache_key
            THEN (CHOOSE e \in cache_store.entries : e.key = cache_key).value
            ELSE NoValue
    IN IF cached_result # NoValue
       THEN /\ served' = [op |-> prefix, query_id |-> query_id, value |-> cached_result,
                          from_cache |-> TRUE]
            /\ UNCHANGED cache_store
       ELSE /\ served' = [op |-> prefix, query_id |-> query_id, value |-> computed,
                          from_cache |-> FALSE]
            \* cache.set, lines 51-62
            /\ cache_store' =
                  IF ~cache_store.enabled THEN cache_store
                  ELSE [cache_store EXCEPT !.entries =
                           {e \in @ : e.key # cache_key}
                               \cup {[key |-> cache_key, value |-> computed]}]

\* Lines 174-185
GetCachedQueryStatus ==
    /\ \E query_id \in QueryIds :
         CachedCall("query_status", query_id, get_query_status(query_id))
    /\ UNCHANGED << analysisVars, db_queries, db_tasks, db_reports, job, sweep >>

\* Lines 188-199
GetCachedQueryResult ==
    /\ \E query_id \in QueryIds :
         CachedCall("query_result", query_id, get_analysis_result(query_id))
    /\ UNCHANGED << analysisVars, db_queries, db_tasks, db_reports, job, sweep >>

\* Lines 90-93, called for any query id
InvalidateQuery ==
    /\ \E query_id \in QueryIds :
         /\ cache_store' = invalidate_query(cache_store, query_id)
         /\ served' = [op |-> "invalidate_query", query_id |-> query_id,
                       value |-> NoValue, from_cache |-> FALSE]
    /\ UNCHANGED << analysisVars, db_queries, db_tasks, db_reports, job, sweep >>

\* Line 58: setex gives every entry a time to live; Redis drops it at its end
ExpireEntry ==
    /\ \E e \in cache_store.entries :
         cache_store' = [cache_store EXCEPT !.entries = @ \ {e}]
    /\ UNCHANGED << analysisVars, db_queries, db_tasks, db_reports, job, sweep, served >>

\* The cached query functions and invalidate_query called while one
\* run_analysis_task changes the rows they read; no model is configured
InitCache ==
    /\ llm = "none"
    /\ query = <<"Metformin", "for", "diabetes">>
    /\ pc = "idle"
    /\ decomposition = NoDecomposition
    /\ path = "none"
    /\ tasks = [w \in {} |-> NoValue]
    /\ agent_names = <<>>
    /\ FreshWorkers
    /\ clock = 0
    /\ dispatch_time = 0
    /\ timed_out = FALSE
    /\ results = <<>>
    /\ aggregated_data = NoAggregate
    /\ summary_failed = FALSE
    /\ envelope = NoEnvelope
    /\ db_queries = [q \in QueryIds |-> IF q = 1 THEN QueryRow("pending", FALSE) ELSE NoRow]
    /\ db_tasks = {}
    /\ db_reports = {}
    /\ \E q \in QueryIds : job = [IdleJob EXCEPT !.pc = "start", !.query_id = q,
                                                  !.session = "active"]
    /\ sweep = IdleSweep
    /\ \E enabled \in BOOLEAN : cache_store = CacheManager(enabled)
    /\ served = NoServed

NextCache ==
    \/ GetCachedQueryStatus
    \/ GetCachedQueryResult
    \/ InvalidateQuery
    \/ ExpireEntry
    \/ BeginAnalysis
    \/ CreateTaskRecords
    \/ StartProcessQuery
    \/ DecomposeQuery
    \/ UpdateTaskRecords
    \/ CreateReport
    \/ CreateDrugCandidates
    \/ CompleteAnalysis
    \/ FailQuery
    \/ FailTasks

SpecCache == InitCache /\ [][NextCache]_vars

\* ================================================================ the claims
Returned == pc \in {"collected", "summarizing", "done"} /\ path # "raised"

\* C1: when every dispatched worker has finished before the deadline, the
\* returned list holds exactly one Result per dispatched task, in dispatch
\* order; the entry of a worker whose execute raised is a failed Result with
\* the raised error's text and that worker's task_id, and every other entry is
\* the worker's own Result, unchanged.
C1_AllResultsReturned ==
    (Returned /\ clock - dispatch_time < AGENT_TIMEOUT_SECONDS) =>
        /\ Len(results) = Cardinality(DOMAIN tasks)
        /\ \A w \in DOMAIN tasks : \E i \in 1..Len(results) : agent_names[i] = w
        /\ \A i \in 1..Len(results) :
             LET w == agent_names[i]
             IN IF IsException(gathered[w])
                THEN /\ ~IsException(results[i])
                     /\ results[i].status = "failed"
                     /\ results[i].error = gathered[w].exc
                     /\ results[i].task_id = tasks[w].task_id
                ELSE results[i] = gathered[w]

C1_Witness ==
    /\ Returned
    /\ clock - dispatch_time < AGENT_TIMEOUT_SECONDS
    /\ Len(results) = 3
    /\ IsException(gathered["patent"])
    /\ results[2].status = "failed"
    /\ results[1].status = "success"
    /\ results[3].status = "success"

\* C2: if the batch deadline elapses before all dispatched workers have
\* completed, the dispatcher returns an empty list.
C2_DeadlineGivesEmptyList ==
    (Returned /\ clock - dispatch_time > AGENT_TIMEOUT_SECONDS) => results = <<>>

\* C3: while one worker is waiting on its provider call, every other
\* dispatched worker that has not started yet can start.
C3_WorkersRunConcurrently ==
    \A w \in RegistrySet, v \in RegistrySet :
        (wstate[w] = "provider" /\ wstate[v] = "ready") => ENABLED StartWorker(v)

\* C4: decompose returns a Decomposition for every query; whenever the
\* structured extraction fails, the model being unavailable included, the
\* deterministic fallback Decomposition is returned and no error escapes.
C4_DecomposeAlwaysReturns ==
    pc # "start" =>
        /\ path \in {"llm", "fallback"}
        /\ decomposition # NoDecomposition
        /\ (llm = "none" \/ path = "fallback") =>
               decomposition = _fallback_decomposition(query)

\* C5: for a Decomposition whose required_workers is empty or holds only
\* names outside the registry, one task is created for each of the four
\* workers.
C5_EmptyRequiredRunsAll ==
    (pc \notin {"start", "decomposed"} /\ decomposition # NoDecomposition
       /\ decomposition.required_agents \cap RegistrySet = {}) =>
        DOMAIN tasks = RegistrySet

\* C6: when a provider call made by a worker fails, the worker's Result has
\* status failed and its error is the provider's error message; a provider
\* failure never yields a success Result.
C6_ProviderFailureFails ==
    \A w \in RegistrySet :
        outcome[w] \in {"network", "malformed"} =>
            /\ gathered[w].status = "failed"
            /\ gathered[w].error =
                   (IF outcome[w] = "network" THEN NetworkErrorText
                    ELSE MalformedErrorText)

\* The tasks C7 is about, in the claim's words
InvalidTask(w, task) ==
    LET missing(k) == k \notin DOMAIN task.parameters \/ task.parameters[k] = ""
    IN \/ task.description = <<>>
       \/ w \in {"clinical", "market"} /\ missing("condition")
       \/ w = "patent" /\ missing("drug_name")
       \/ w = "web" /\ (missing("condition") \/ missing("drug_name"))

\* C7: for every worker and every task whose description is empty or whose
\* required parameter is missing or empty, execute returns a failed Result
\* with a descriptive error and makes no provider call.
C7_InvalidTaskShortCircuits ==
    \A w \in DOMAIN tasks :
        (InvalidTask(w, tasks[w]) /\ wstate[w] \in {"provider", "done"}) =>
            /\ wstate[w] = "done"
            /\ ~IsException(gathered[w])
            /\ gathered[w].status = "failed"
            /\ gathered[w].error \in
                   { "Invalid task parameters", "Condition parameter is required",
                     "Drug name parameter is required",
                     "Both condition and drug_name parameters are required" }
            /\ provider_calls[w] = 0

C7_Witness ==
    /\ "web" \in DOMAIN tasks
    /\ tasks["web"].description # <<>>
    /\ "condition" \in DOMAIN tasks["web"].parameters
    /\ tasks["web"].parameters["condition"] # ""
    /\ "drug_name" \notin DOMAIN tasks["web"].parameters
    /\ wstate["web"] = "done"
    /\ gathered["web"].status = "failed"
    /\ provider_calls["web"] = 0

\* The exceptions that reach execute's try block: those of the analysis,
\* and those search_studies does not catch
RaisedInsideTry(w, kind) == kind = "analysis" \/ (w = "clinical" /\ kind = "malformed")

\* C8: an exception raised during provider access or analysis never leaves
\* execute: the call ends with a failed Result whose error is the exception's
\* string and whose execution_time is the time elapsed since execute started.
C8_ExecuteNeverPropagates ==
    [][ \A w \in RegistrySet :
          (running = w /\ running' = "none" /\ RaisedInsideTry(w, outcome'[w])) =>
              /\ ~IsException(gathered'[w])
              /\ gathered'[w].status = "failed"
              /\ gathered'[w].error =
                     (IF outcome'[w] = "analysis" THEN AnalysisErrorText
                      ELSE MalformedErrorText)
              /\ gathered'[w].execution_time = clock' - start_time[w] ]_vars

C8_Witness ==
    /\ outcome["clinical"] = "malformed"
    /\ gathered["clinical"].status = "failed"
    /\ gathered["clinical"].execution_time = MaxCallSeconds
    /\ outcome["market"] = "analysis"
    /\ gathered["market"].status = "failed"

\* C9: process_query returns an envelope whose status is completed or failed,
\* and the recovered failures (validation, provider, decomposition
\* extraction, executive summary) still yield completed.
RecoveredFailure ==
    \/ path \in {"fallback", "raised"}
    \/ summary_failed
    \/ \E w \in RegistrySet :
         \/ wstate[w] = "done" /\ outcome[w] = "none"
         \/ outcome[w] \in {"network", "malformed", "analysis"}

C9_RecoveredFailuresComplete ==
    pc = "done" =>
        /\ envelope.status \in {"completed", "failed"}
        /\ RecoveredFailure => envelope.status = "completed"

\* C10: when the batch times out, the empty Result list yields a Report with
\* zero executed and zero successful workers, average confidence 0.0, all
\* four sections not_available, the three risks Unknown and overall_risk
\* Moderate.
C10_TimeoutReport ==
    (pc = "done" /\ timed_out) =>
        /\ envelope.status = "completed"
        /\ envelope.agent_results = <<>>
        /\ envelope.aggregated_data.total_agents = 0
        /\ envelope.aggregated_data.successful_agents = 0
        /\ envelope.aggregated_data.average_confidence = [num |-> 0, den |-> 1]
        /\ envelope.final_report.metadata.agents_executed = 0
        /\ envelope.final_report.metadata.successful_agents = 0
        /\ envelope.final_report.overall_confidence = [num |-> 0, den |-> 1]
        /\ \A sec \in DOMAIN envelope.final_report.sections :
               envelope.final_report.sections[sec] = [status |-> "not_available"]
        /\ DOMAIN envelope.final_report.sections =
               {"clinical_intelligence", "patent_landscape", "market_intelligence",
                "web_intelligence"}
        /\ envelope.final_report.risk_assessment =
               [clinical_risk |-> "Unknown", ip_risk |-> "Unknown",
                market_risk |-> "Unknown", overall_risk |-> "Moderate"]

C10_Witness ==
    /\ pc = "done"
    /\ timed_out
    /\ gathered["clinical"].status = "success"
    /\ gathered["patent"].status = "success"
    /\ envelope.final_report.risk_assessment.overall_risk = "Moderate"

\* C11: when the deadline passes only the wait of the batch is given up: a
\* worker that was running when the deadline elapsed is not cancelled, it runs
\* on to its own completion and builds its own Result (counted by its
\* execution counter), although the dispatcher returns the empty list.
C11_WorkersNotCancelled ==
    timed_out =>
        /\ results = <<>>
        /\ \A w \in DOMAIN tasks :
             /\ wstate[w] = "done"
             /\ gathered[w] # NoResult
             /\ ~IsException(gathered[w]) =>
                    /\ execution_count[w] = 1
                    /\ gathered[w].task_id = tasks[w].task_id

C11_Witness ==
    /\ timed_out
    /\ "web" \in DOMAIN tasks
    /\ start_time["web"] - dispatch_time < AGENT_TIMEOUT_SECONDS
    /\ clock - dispatch_time >= AGENT_TIMEOUT_SECONDS
    /\ wstate["web"] = "done"
    /\ gathered["web"].status = "success"
    /\ gathered["web"].execution_time = clock - start_time["web"]
    /\ results = <<>>

\* C12: the fallback decomposition is total: for every query (the empty one,
\* one with no keyword and no capitalized word longer than three letters
\* included) it returns a Decomposition whose condition is not empty and is
\* 'Unknown condition' when nothing is found, whose drug_name is empty, whose
\* analysis_type is 'repurposing' and whose required workers are the four of
\* the registry.
NothingFound(q) ==
    /\ \A i \in 1..Len(q) : WordInfo(q[i]).kws \cap SeqToSet(disease_keywords) = {}
    /\ \A i \in 1..Len(q) : ~(WordInfo(q[i]).upper /\ WordInfo(q[i]).len > 3)

C12_FallbackTotal ==
    path = "fallback" =>
        /\ decomposition # NoDecomposition
        /\ decomposition.condition # ""
        /\ NothingFound(query) => decomposition.condition = "Unknown condition"
        /\ decomposition.drug_name = ""
        /\ decomposition.analysis_type = "repurposing"
        /\ decomposition.required_agents = RegistrySet

C12_Witness ==
    /\ path = "fallback"
    /\ query = <<"aspirin", "for", "it">>
    /\ decomposition.condition = "Unknown condition"
    /\ decomposition.required_agents = RegistrySet

\* C13: for any Result list the aggregate has total = the number of results,
\* successful and failed = the numbers of results with status success and
\* failed, average_confidence = the mean confidence of the successful results
\* (0.0 when there is none), total_execution_time = the sum of the execution
\* times of all the results whatever their status, all_sources = the union of
\* the sources of all the results, and it holds the data of every successful
\* result under its worker's name and the data of no failed result.
Indices(status) == {i \in 1..Len(results) : results[i].status = status}

SumOver(f(_), n) ==
    LET S[i \in 0..n] == IF i = 0 THEN 0 ELSE S[i - 1] + f(i)
    IN S[n]

C13_Aggregate ==
    aggregated_data # NoAggregate =>
        LET a == aggregated_data
            conf(i) == IF results[i].status = "success"
                       THEN results[i].confidence_score ELSE 0
            time(i) == results[i].execution_time
        IN /\ a.total_agents = Len(results)
           /\ a.successful_agents = Cardinality(Indices("success"))
           /\ a.failed_agents = Cardinality(Indices("failed"))
           /\ IF Indices("success") = {}
              THEN a.average_confidence = [num |-> 0, den |-> 1]
              ELSE a.average_confidence.num * Cardinality(Indices("success"))
                     = SumOver(conf, Len(results)) * a.average_confidence.den
           /\ a.total_execution_time = SumOver(time, Len(results))
           /\ \A x \in a.all_sources :
                  \E i \in 1..Len(results) : x \in SeqToSet(results[i].sources)
           /\ \A i \in 1..Len(results) : SeqToSet(results[i].sources) \subseteq a.all_sources
           /\ DOMAIN a.agent_data = {results[i].agent_name : i \in Indices("success")}
           /\ \A i \in Indices("success") :
                  a.agent_data[results[i].agent_name] = results[i].data

C13_Witness ==
    /\ aggregated_data # NoAggregate
    /\ Len(results) = 3
    /\ aggregated_data.successful_agents = 2
    /\ aggregated_data.failed_agents = 1
    /\ \E i \in Indices("failed") : results[i].execution_time > 0
    /\ aggregated_data.average_confidence.num > 0

\* C14: order-independence: for every Result list and every permutation of
\* it, the aggregate of the permutation is the aggregate of the list, and the
\* report synthesized from the permutation has the same sections, the same
\* recommendations and the same risk assessment (all_sources is a set).
PermutationsOf(list) ==
    { [i \in 1..Len(list) |-> list[o[i]]] : o \in Permutations(1..Len(list)) }

SuccessOf(w) == {i \in 1..Len(results) :
                    results[i].task_id[1] = w /\ results[i].status = "success"}

HigherIsSafer(score) ==
    IF score >= 600 THEN "Low" ELSE IF score >= 300 THEN "Moderate" ELSE "High"

LowerIsSafer(score) ==
    IF score <= 300 THEN "Low" ELSE IF score <= 600 THEN "Moderate" ELSE "High"

RiskCode(level) == IF level = "Low" THEN 1 ELSE IF level = "High" THEN 3 ELSE 2

C15_RiskRollUp ==
    (pc = "done" /\ envelope.status = "completed") =>
        LET risk == envelope.final_report.risk_assessment
            codes == RiskCode(risk.clinical_risk) + RiskCode(risk.ip_risk)
                     + RiskCode(risk.market_risk)
        IN /\ risk.clinical_risk =
                  (IF SuccessOf("clinical") = {} THEN "Unknown"
                   ELSE HigherIsSafer(
                            results[CHOOSE i \in SuccessOf("clinical") : TRUE]
                                .data.evidence_score))
           /\ risk.ip_risk =
                  (IF SuccessOf("patent") = {} THEN "Unknown"
                   ELSE LowerIsSafer(
                            results[CHOOSE i \in SuccessOf("patent") : TRUE]
                                .data.risk_score))
           /\ risk.market_risk =
                  (IF SuccessOf("market") = {} THEN "Unknown"
                   ELSE HigherIsSafer(
                            results[CHOOSE i \in SuccessOf("market") : TRUE]
                                .data.attractiveness_score))
           \* codes / 3 < 1.7 and codes / 3 < 2.3
           /\ risk.overall_risk =
                  (IF codes * 10 < 17 * 3 THEN "Low"
                   ELSE IF codes * 10 < 23 * 3 THEN "Moderate" ELSE "High")

C15_Witness ==
    /\ pc = "done"
    /\ envelope.status = "completed"
    /\ SuccessOf("clinical") # {}
    /\ results[CHOOSE i \in SuccessOf("clinical") : TRUE].data.evidence_score = 600
    /\ SuccessOf("patent") = {}
    /\ \E i \in 1..Len(results) : results[i].task_id[1] = "patent"
    /\ SuccessOf("market") # {}
    /\ results[CHOOSE i \in SuccessOf("market") : TRUE].data.attractiveness_score = 300
    /\ envelope.final_report.risk_assessment =
           [clinical_risk |-> "Low", ip_risk |-> "Unknown", market_risk |-> "Moderate",
            overall_risk |-> "Low"]

\* C16: for each of the four domains the section of the report is the data of
\* that worker's Result when the Result is in the batch with status success,
\* and {status: not_available} when that worker's Result is missing from the
\* batch or has status failed.  The worker a Result belongs to is read from
\* its task_id.
SectionOf(w) ==
    CASE w = "clinical" -> envelope.final_report.sections.clinical_intelligence
      [] w = "patent"   -> envelope.final_report.sections.patent_landscape
      [] w = "market"   -> envelope.final_report.sections.market_intelligence
      [] w = "web"      -> envelope.final_report.sections.web_intelligence

ResultsOf(w) == {i \in 1..Len(results) : results[i].task_id[1] = w}

C16_Sections ==
    (pc = "done" /\ envelope.status = "completed") =>
        \A w \in RegistrySet :
            /\ \A i \in ResultsOf(w) :
                   results[i].status = "success" => SectionOf(w) = results[i].data
            /\ (\A i \in ResultsOf(w) : results[i].status = "failed") =>
                   SectionOf(w) = [status |-> "not_available"]

C16_Witness ==
    /\ pc = "done"
    /\ envelope.status = "completed"
    /\ \E i \in ResultsOf("clinical") :
         /\ results[i].status = "success"
         /\ SectionOf("clinical") = results[i].data
    /\ \E i \in ResultsOf("patent") :
         /\ results[i].status = "failed"
         /\ results[i].agent_name = "patent"
    /\ \E i \in ResultsOf("web") :
         /\ results[i].status = "failed"
         /\ results[i].agent_name = "WebIntelligenceAgent"
    /\ ResultsOf("market") = {}
    /\ SectionOf("patent") = [status |-> "not_available"]
    /\ SectionOf("web") = [status |-> "not_available"]
    /\ SectionOf("market") = [status |-> "not_available"]

\* C17: every score a worker computes (evidence, IP risk, market
\* attractiveness, research momentum) is within [0, 10] and is a whole number
\* of hundredths, whatever the counts and rates the provider returned, zero
\* counts and empty lists included.
ScoreOf(w) ==
    CASE w = "clinical" -> gathered[w].data.evidence_score
      [] w = "patent"   -> gathered[w].data.risk_score
      [] w = "market"   -> gathered[w].data.attractiveness_score
      [] w = "web"      -> gathered[w].data.research_momentum_score

Succeeded(w) ==
    /\ wstate[w] = "done"
    /\ ~IsException(gathered[w])
    /\ gathered[w].status = "success"

C17_ScoresInRange ==
    \A w \in RegistrySet : Succeeded(w) => ScoreOf(w) \in 0..1000

C17_Witness ==
    /\ Succeeded("patent")
    /\ gathered["patent"].data.active_patents = MaxPatents
    /\ MaxPatents * 50 > 1000
    /\ ScoreOf("patent") = 1000

\* C18: the clinical evidence score is min(n/10, 3) + min(completed/5, 3)
\* + min((1.5 * phase3 + 2 * phase4)/5, 4), capped at 10, for n retrieved
\* studies, and 0 when n = 0; 12 studies with 8 completed, 3 in Phase 3 and 1
\* in Phase 4 give 4.1, which is in the moderate recommendation band.
\* The counts are those the Result reports (total_trials, trials_by_status,
\* phase_analysis); the score is in hundredths.
C18_EvidenceScore ==
    Succeeded("clinical") =>
        LET data == gathered["clinical"].data
            n == data.total_trials
            completed == Get(data.trials_by_status, "COMPLETED", 0)
            phase3 == data.phase_analysis["PHASE3"]
            phase4 == data.phase_analysis["PHASE4"]
            \* (1.5 * phase3 + 2 * phase4) / 5 in hundredths
            advanced == (150 * phase3 + 200 * phase4) \div 5
        IN /\ data.evidence_score =
                  (IF n = 0 THEN 0
                   ELSE Min(Min(n * 10, 300) + Min(completed * 20, 300)
                            + Min(advanced, 400), 1000))
           /\ (n = 12 /\ completed = 8 /\ phase3 = 3 /\ phase4 = 1) =>
                  /\ data.evidence_score = 410
                  /\ data.recommendation = "Moderate clinical evidence."

C18_Witness ==
    /\ Succeeded("clinical")
    /\ gathered["clinical"].data.total_trials = 12
    /\ Get(gathered["clinical"].data.trials_by_status, "COMPLETED", 0) = 8
    /\ gathered["clinical"].data.phase_analysis["PHASE3"] = 3
    /\ gathered["clinical"].data.phase_analysis["PHASE4"] = 1
    /\ gathered["clinical"].data.evidence_score = 410
    /\ gathered["clinical"].data.recommendation = "Moderate clinical evidence."

\* C19: the market attractiveness score is the sum of a size tier
\* (market_size_usd > 20e9: 4, > 10e9: 3, > 5e9: 2, else 1), a growth tier
\* (CAGR > 10: 3, > 7: 2, > 4: 1, else 0) and a competition tier (top-3 share
\* < 50: 3, < 70: 2, else 1), every threshold strict; market_size_usd = 25e9,
\* CAGR = 11 and top-3 share = 45 give 10 and the viability level High.
\* market_size_usd is in 1e9, CAGR, share and score are in hundredths.
SizeTier(usd) == IF usd > 20 THEN 4 ELSE IF usd > 10 THEN 3 ELSE IF usd > 5 THEN 2 ELSE 1

GrowthTier(cagr) ==
    IF cagr > 1000 THEN 3 ELSE IF cagr > 700 THEN 2 ELSE IF cagr > 400 THEN 1 ELSE 0

CompetitionTier(share) == IF share < 5000 THEN 3 ELSE IF share < 7000 THEN 2 ELSE 1

C19_MarketAttractiveness ==
    Succeeded("market") =>
        LET data == gathered["market"].data
            market == data.market_size
        IN /\ data.attractiveness_score =
                  100 * (SizeTier(market.market_size_usd)
                         + GrowthTier(market.projected_cagr)
                         + CompetitionTier(market.top_3_market_share))
           /\ (market.market_size_usd = 25 /\ market.projected_cagr = 1100
                 /\ market.top_3_market_share = 4500) =>
                  /\ data.attractiveness_score = 1000
                  /\ data.viability_level = "High"

C19_Witness ==
    /\ Succeeded("market")
    /\ gathered["market"].data.market_size =
           [market_size_usd |-> 20, projected_cagr |-> 1000, top_3_market_share |-> 5000]
    /\ gathered["market"].data.attractiveness_score = 700
    /\ gathered["market"].data.viability_level = "High"

\* C20: the recommendation bands have inclusive boundaries for every worker:
\* clinical, market and web give the strong (high) band for a score >= 7, the
\* moderate band for a score >= 4 and the limited band otherwise; patent gives
\* Low for a risk <= 3, Moderate for a risk <= 6 and High otherwise; and the
\* clinical worker answers 'No clinical trials found' when no trial was
\* retrieved, whatever the score.
Band(score, strong, moderate, limited) ==
    IF score >= 700 THEN strong ELSE IF score >= 400 THEN moderate ELSE limited

C20_RecommendationBands ==
    /\ Succeeded("clinical") =>
           gathered["clinical"].data.recommendation =
               (IF gathered["clinical"].data.total_trials = 0
                THEN "No clinical trials found. Further research needed."
                ELSE Band(ScoreOf("clinical"), "Strong clinical evidence.",
                          "Moderate clinical evidence.", "Limited clinical evidence."))
    /\ Succeeded("market") =>
           gathered["market"].data.recommendation =
               Band(ScoreOf("market"), "Highly attractive market.",
                    "Moderately attractive market.", "Limited market attractiveness.")
    /\ Succeeded("web") =>
           gathered["web"].data.recommendation =
               Band(ScoreOf("web"), "Strong research momentum.",
                    "Moderate research activity.", "Limited research activity.")
    /\ Succeeded("patent") =>
           gathered["patent"].data.recommendation =
               (IF ScoreOf("patent") <= 300 THEN "Low IP risk."
                ELSE IF ScoreOf("patent") <= 600 THEN "Moderate IP risk."
                ELSE "High IP risk.")

C20_Witness ==
    /\ Succeeded("clinical")
    /\ gathered["clinical"].data.total_trials > 0
    /\ ScoreOf("clinical") = 700
    /\ gathered["clinical"].data.recommendation = "Strong clinical evidence."

\* C21: on one worker instance, every execute call that returns a Result adds
\* exactly one to execution_count, and one to success_count exactly when that
\* Result has status 'success'; nothing else changes the counters, which start
\* at zero, so execution_count is the number of returned calls, success_count
\* the number of successful ones, and success_count <= execution_count.
ReturnsNow(w) ==
    \/ running = w /\ running' = "none" /\ ~IsException(gathered'[w])
    \/ /\ running = "none" /\ running' = "none"
       /\ ready # <<>> /\ Head(ready) = w /\ ready' = Tail(ready)

C21_CountersMatchReturns ==
    /\ execution_count = Zero /\ success_count = Zero
    /\ [](\A w \in RegistrySet : success_count[w] <= execution_count[w])
    /\ [][\A w \in RegistrySet :
            /\ execution_count'[w] =
                   execution_count[w] + (IF ReturnsNow(w) THEN 1 ELSE 0)
            /\ success_count'[w] =
                   success_count[w]
                   + (IF ReturnsNow(w) /\ gathered'[w].status = "success" THEN 1 ELSE 0)
         ]_vars

C21_Witness ==
    \E w \in RegistrySet :
        /\ ready = <<>> /\ running = "none"
        /\ execution_count[w] = MaxCalls
        /\ success_count[w] \in 1..(MaxCalls - 1)

\* C22: key_trials and key_patents are the first five items of the retrieved
\* list rearranged by non-increasing relevance (importance) score, items of
\* equal score staying in retrieval order: the item retrieved at position i
\* stands after every item of higher score and every earlier item of the
\* same score, and nowhere else.
RelevanceOf(study, drug_name) ==
    (IF study.status = "COMPLETED" THEN 3 ELSE 0)
    + (IF study.phase \cap {"PHASE3", "PHASE4"} # {} THEN 2 ELSE 0)
    + (IF drug_name # "" /\ study.drug THEN 2 ELSE 0)

ImportanceOf(patent) ==
    (IF patent.status = "Active" THEN 300 ELSE 0)
    + Min(patent.citations * 20, 200) + Min(patent.claims_count * 5, 200)

RankOf(scores, i) ==
    1 + Cardinality({j \in 1..Len(scores) : scores[j] > scores[i]})
      + Cardinality({j \in 1..(i - 1) : scores[j] = scores[i]})

StableTopFive(items, scores, top) ==
    /\ Len(top) = Min(5, Len(items))
    /\ \A i \in 1..Len(items) : RankOf(scores, i) <= 5 => top[RankOf(scores, i)] = items[i]

C22_StableRanking ==
    /\ Succeeded("clinical") =>
           StableTopFive(retrieved["clinical"],
                         [i \in 1..Len(retrieved["clinical"]) |->
                             RelevanceOf(retrieved["clinical"][i],
                                         gathered["clinical"].data.drug_name)],
                         gathered["clinical"].data.key_trials)
    /\ Succeeded("patent") =>
           StableTopFive(retrieved["patent"],
                         [i \in 1..Len(retrieved["patent"]) |->
                             ImportanceOf(retrieved["patent"][i])],
                         gathered["patent"].data.key_patents)

C22_Witness ==
    /\ Succeeded("clinical")
    /\ Len(retrieved["clinical"]) > 5
    /\ \E i, j \in 1..Len(retrieved["clinical"]) :
         /\ i < j
         /\ retrieved["clinical"][i] # retrieved["clinical"][j]
         /\ RelevanceOf(retrieved["clinical"][i], gathered["clinical"].data.drug_name)
              = RelevanceOf(retrieved["clinical"][j], gathered["clinical"].data.drug_name)
         /\ \E a, b \in 1..5 :
              /\ a < b
              /\ gathered["clinical"].data.key_trials[a] = retrieved["clinical"][i]
              /\ gathered["clinical"].data.key_trials[b] = retrieved["clinical"][j]
    /\ gathered["clinical"].data.key_trials # FirstN(retrieved["clinical"], 5)

\* C23: run_analysis_task for an existing query leaves the query 'completed'
\* when it returns and 'failed' when it raises, in which case no task record
\* of that query is left 'pending' or 'running' and each one that was is
\* 'failed' with the error; it never ends with the query 'pending' or
\* 'processing'.
JobQuery == db_queries[job.query_id]

JobTasks == {t \in db_tasks : t.query_id = job.query_id}

C23_QueryReachesFinalStatus ==
    JobQuery.present =>
        /\ job.pc = "returned" => JobQuery.status = "completed"
        /\ job.pc = "raised" =>
               /\ JobQuery.status = "failed"
               /\ \A t \in JobTasks : t.status \notin {"pending", "running"}
        /\ job.pc \in {"returned", "raised"} =>
               JobQuery.status \notin {"pending", "processing"}

\* C24: after run_analysis_task has returned, the task record of each of the
\* four agents is 'completed' exactly when that agent's Result in the
\* agent_results of process_query succeeded, and 'failed' otherwise.
AgentSucceeded(w) ==
    \E i \in 1..Len(envelope.agent_results) :
        /\ envelope.agent_results[i].agent_name = AgentClassName(w)
        /\ envelope.agent_results[i].status = "success"

C24_TaskStatusFollowsResult ==
    job.pc = "returned" =>
        \A t \in JobTasks :
            t.status = IF AgentSucceeded(t.agent_type) THEN "completed" ELSE "failed"

\* C27: a report is stored for the query, and the query is 'completed' when
\* run_analysis_task returns, only if process_query returned an envelope with
\* status 'completed'; with the failure envelope the query ends 'failed'.
C27_CompletedOnlyOnCompletedEnvelope ==
    /\ (\E r \in db_reports : r.query_id = job.query_id) => envelope.status = "completed"
    /\ job.pc = "returned" =>
           /\ JobQuery.status = "completed" => envelope.status = "completed"
           /\ envelope.status = "failed" => JobQuery.status = "failed"

\* C30: cleanup_old_reports removes only queries created before the cutoff
\* whose status is 'completed' or 'failed' when they are removed, never one
\* that is 'pending' or 'processing', however its steps fall between those of
\* run_analysis_task; and deleted_queries is the number of queries removed.
RemovedNow == {q \in QueryIds : db_queries[q].present /\ ~db_queries'[q].present}

QueryKeys(q) == { _make_key("query_status", <<q>>), _make_key("query_result", <<q>>) }

C25_InvalidateQueryDropsCachedValues ==
    [][ /\ served'.op = "invalidate_query" =>
              \A e \in cache_store'.entries : e.key \notin QueryKeys(served'.query_id)
        /\ ( /\ served.op = "invalidate_query"
             /\ served'.op \in {"query_status", "query_result"}
             /\ served'.query_id = served.query_id ) => ~served'.from_cache
      ]_vars

\* C28 as stated: in every risk assessment, overall_risk is not 'Low' when
\* clinical_risk, ip_risk or market_risk is 'High'.
DimensionsOf(risk) == << risk.clinical_risk, risk.ip_risk, risk.market_risk >>

HighCount(risk) == Cardinality({i \in 1..3 : DimensionsOf(risk)[i] = "High"})

LowCount(risk) == Cardinality({i \in 1..3 : DimensionsOf(risk)[i] = "Low"})

C28_NeverLowWithHigh ==
    (pc = "done" /\ envelope.status = "completed") =>
        LET risk == envelope.final_report.risk_assessment
        IN HighCount(risk) >= 1 => risk.overall_risk # "Low"

\* C28, amended: in every risk assessment with a 'High' dimension,
\* overall_risk is 'Low' exactly when that is the only 'High' dimension and
\* the two others are both 'Low'; with a 'High' dimension and another that is
\* 'Moderate', 'Unknown' or 'High', overall_risk is not 'Low'.
C28_LowWithHighOnlyBesideTwoLow ==
    (pc = "done" /\ envelope.status = "completed") =>
        LET risk == envelope.final_report.risk_assessment
        IN HighCount(risk) >= 1 =>
              (risk.overall_risk = "Low" <=> (HighCount(risk) = 1 /\ LowCount(risk) = 2))

C28_Witness ==
    /\ pc = "done"
    /\ envelope.status = "completed"
    /\ envelope.final_report.risk_assessment =
           [clinical_risk |-> "High", ip_risk |-> "Low", market_risk |-> "Low",
            overall_risk |-> "Low"]

\* C26: whenever the decomposition came from the deterministic fallback,
\* drug_name is the empty string in the parameters of every task created; the
\* patent worker and the web worker never contact their provider and each
\* returns a Result with status 'failed'; and the report built from the batch
\* has patent_landscape and web_intelligence equal to {status:
\* 'not_available'}, ip_risk 'Unknown' and at most two successful workers.
C26_FallbackLeavesOutPatentAndWeb ==
    path = "fallback" =>
        /\ \A w \in DOMAIN tasks :
              /\ "drug_name" \in DOMAIN tasks[w].parameters
              /\ tasks[w].parameters["drug_name"] = ""
        /\ \A w \in {"patent", "web"} :
              /\ provider_calls[w] = 0
              /\ wstate[w] # "provider"
              /\ wstate[w] = "done" =>
                    /\ ~IsException(gathered[w])
                    /\ gathered[w].status = "failed"
        /\ (pc = "done" /\ envelope.status = "completed") =>
              /\ envelope.final_report.sections.patent_landscape = [status |-> "not_available"]
              /\ envelope.final_report.sections.web_intelligence = [status |-> "not_available"]
              /\ envelope.final_report.risk_assessment.ip_risk = "Unknown"
              /\ envelope.final_report.metadata.successful_agents <= 2
              /\ envelope.aggregated_data.successful_agents <= 2

C26_Witness ==
    /\ path = "fallback"
    /\ pc = "done"
    /\ envelope.status = "completed"
    /\ DOMAIN tasks = RegistrySet
    /\ wstate["patent"] = "done"
    /\ gathered["patent"].error = "Drug name parameter is required"
    /\ wstate["web"] = "done"
    /\ gathered["web"].error = "Both condition and drug_name parameters are required"
    /\ provider_calls["clinical"] = 1
    /\ provider_calls["market"] = 1
    /\ envelope.aggregated_data.successful_agents = 2
    /\ envelope.final_report.risk_assessment.ip_risk = "Unknown"

\* C29: every Result of the list the parallel dispatch returns has status
\* 'success' or 'failed' and a confidence_score within [0, 1] (in thousandths)
\* that is 0 when the status is 'failed'; and the aggregate built from the list
\* has total_agents = successful_agents + failed_agents.
C29_StatusesAndConfidence ==
    /\ \A i \in 1..Len(results) :
          /\ results[i].status \in {"success", "failed"}
          /\ results[i].confidence_score \in 0..1000
          /\ results[i].status = "failed" => results[i].confidence_score = 0
    /\ aggregated_data # NoAggregate =>
          aggregated_data.total_agents =
              aggregated_data.successful_agents + aggregated_data.failed_agents

C29_Witness ==
    /\ aggregated_data # NoAggregate
    /\ aggregated_data.total_agents = 4
    /\ aggregated_data.successful_agents = 2
    /\ aggregated_data.failed_agents = 2
    /\ \E i \in 1..Len(results) :
         /\ results[i].status = "success"
         /\ results[i].agent_name = "ClinicalIntelligenceAgent"
         /\ results[i].confidence_score > 0
         /\ results[i].confidence_score < 1000
    /\ \E i \in 1..Len(results) :
         /\ results[i].status = "failed"
         /\ results[i].error = "Drug name parameter is required"
         /\ results[i].confidence_score = 0
    /\ \E i \in 1..Len(results) :
         /\ results[i].status = "success"
         /\ results[i].agent_name = "MarketIntelligenceAgent"
         /\ results[i].confidence_score = 750

====
